---- MODULE Spec2Model ----
(***************************************************************************)
(* The model-building engine of PyPSA (pypsa/optimization/variables.py and *)
(* constraints.py) as a state machine.  The state is the network `n` (the  *)
(* component tables and build flags the routines read), the optimisation   *)
(* model `m` (the declared variables and the emitted constraint rows), the *)
(* position `pc`/`k` of the build, the raised error `err` and the point    *)
(* `sol` the external solver returns; `builds`, `n_built`, `m_prev` and     *)
(* `n_prev` remember the previous build and the network each build read,   *)
(* `m_start` the model the current build started from, `calls` counts the  *)
(* calls of the routines init_switches is made of;                         *)
(* `log` holds the warnings the current build has logged.                  *)
(* Every define_* routine of the                                           *)
(* source is one action; the solver is two actions that pick any point of  *)
(* a bounded integer grid that satisfies every emitted row.                *)
(***************************************************************************)
EXTENDS Integers, Sequences, FiniteSets, TLC

VARIABLES n, m, pc, k, err, sol, builds, n_built, m_prev, m_start, calls,
          n_prev, log

vars ==
    <<n, m, pc, k, err, sol, builds, n_built, m_prev, m_start, calls, n_prev,
      log>>

(***************************************************************************)
(* Bounds of the model.                                                    *)
(***************************************************************************)
\* number of snapshots of the network
NSns == 2
\* largest value of the solver's grid and of the drawn capacities
MaxVal == 2
\* number of snapshots of the multi-period networks
MaxSns == 3
\* number of builds of one network
MaxBuilds == 3

(***************************************************************************)
(* numpy's inf, and the smallest/largest number the model computes with.   *)
(***************************************************************************)
Inf == 1000
NegInf == 0 - Inf
\* the missing value of a table cell
NaN == NegInf - 1

(***************************************************************************)
(* Small helpers.                                                          *)
(***************************************************************************)
Max(S) == CHOOSE x \in S : \A y \in S : y <= x
Min(S) == CHOOSE x \in S : \A y \in S : x <= y
Clip0(x) == IF x < 0 THEN 0 ELSE x

RECURSIVE SumSet(_, _)
\* sum of f[x] over the finite set S
SumSet(S, f) ==
    IF S = {} THEN 0
    ELSE LET x == CHOOSE y \in S : TRUE
         IN f[x] + SumSet(S \ {x}, f)

(***************************************************************************)
(* The network object: tables, index queries, snapshot window.             *)
(***************************************************************************)
\* n.df(c): the component table, a function asset -> attribute record
df(c) == n.df[c]
Index(c) == DOMAIN df(c)
\* n.snapshots and the snapshot window sns handed to the build
snapshots == 1..n.T
sns == n.sns0..n.T
sns_tail == (n.sns0 + 1)..n.T

nominal_attrs(c) ==
    CASE c = "Generator" -> "p_nom"
      [] c = "Line" -> "s_nom"
      [] c = "Transformer" -> "s_nom"
      [] c = "Link" -> "p_nom"
      [] c = "Store" -> "e_nom"
      [] c = "StorageUnit" -> "p_nom"

passive_branch_components == {"Line", "Transformer"}

get_extendable_i(c) ==
    {a \in Index(c) : df(c)[a][nominal_attrs(c) \o "_extendable"]}
get_non_extendable_i(c) ==
    {a \in Index(c) : ~df(c)[a][nominal_attrs(c) \o "_extendable"]}
get_committable_i(c) ==
    IF c = "Generator" THEN {a \in Index(c) : df(c)[a].committable} ELSE {}

\* the investment period a snapshot belongs to
period(t) == n.period[t]
\* get_activity_mask: the active (snapshot, asset) cells of `idx` over `ss`
get_activity_mask(c, ss, idx) ==
    {<<t, a>> \in ss \X idx :
        \/ ~n.multi_invest
        \/ /\ df(c)[a].build_year <= period(t)
           /\ period(t) < df(c)[a].build_year + df(c)[a].lifetime}
\* faulty variant: the activity mask is never applied
active_or_none_unmasked(c, ss, idx) == ss \X idx
\* `get_activity_mask(...) if n._multi_invest else None`: no mask is all cells
active_or_none(c, ss, idx) ==
    IF n.multi_invest THEN get_activity_mask(c, ss, idx) ELSE ss \X idx

(***************************************************************************)
(* The optimisation model (linopy): named variables over cells, rows.      *)
(* A cell is <<snapshot, asset>>, snapshot 0 for a static variable.  A     *)
(* masked cell has no label: every term that refers to it is absent.       *)
(***************************************************************************)
EmptyModel == [variables |-> {}, constraints |-> {}]

\* lower is a number, upper a number per cell (Inf when the call gives none)
add_variables(mm, lower, upper, coords, name, mask, integer) ==
    [mm EXCEPT !.variables =
        {d \in @ : d.name # name} \cup
        {[name |-> name, coords |-> coords, labels |-> coords \cap mask,
          lower |-> lower, upper |-> upper, integer |-> integer]}]

\* faulty variant: a variable declared without upper bound gets the bound 1
NoUpper_binary(coords) == [c \in coords |-> 1]
NoUpper(coords) == [c \in coords |-> Inf]

\* rows is a set of rows that all carry the name `name`
add_constraints(mm, name, rows) ==
    [mm EXCEPT !.constraints = {r \in @ : r.name # name} \cup rows]

\* adds rows of several names, replacing earlier rows of these names
add_all_constraints(mm, rows) ==
    [mm EXCEPT !.constraints =
        {r \in @ : r.name \notin {x.name : x \in rows}} \cup rows]

HasVar(mm, name) == \E d \in mm.variables : d.name = name
Var(mm, name) == CHOOSE d \in mm.variables : d.name = name
HasLabel(mm, name, t, a) ==
    HasVar(mm, name) /\ <<t, a>> \in Var(mm, name).labels

\* one term coef * name[t, a]; absent when the cell carries no label
Term(mm, coef, name, t, a) ==
    IF HasLabel(mm, name, t, a)
    THEN {[coef |-> coef, var |-> [v |-> name, sn |-> t, i |-> a]]}
    ELSE {}

\* the sum of two expressions: a term of B that is already a term of A is
\* added onto it, so that the expression is worth the sum of all its terms
RECURSIVE plus(_, _)
plus(A, B) ==
    IF B = {} THEN A
    ELSE LET tm == CHOOSE x \in B : TRUE
         IN IF tm \in A
            THEN plus(plus(A \ {tm}, {[tm EXCEPT !.coef = 2 * tm.coef]}), B \ {tm})
            ELSE plus(A \cup {tm}, B \ {tm})
\* linopy's merge of the expressions exprs[key] along the term dimension
RECURSIVE merge(_)
merge(exprs) ==
    IF DOMAIN exprs = {} THEN {}
    ELSE LET key == CHOOSE x \in DOMAIN exprs : TRUE
         IN plus(merge([x \in DOMAIN exprs \ {key} |-> exprs[x]]), exprs[key])

\* a row sum(coef/den * var) sense rhs/den; coef and rhs are kept as the
\* integer numerators over the common denominator den
RowQ(name, t, a, terms, sense, rhs, den) ==
    [name |-> name, sn |-> t, i |-> a, terms |-> terms, sense |-> sense,
     rhs |-> rhs, den |-> den]
Row(name, t, a, terms, sense, rhs) == RowQ(name, t, a, terms, sense, rhs, 1)

Rows(mm, name) == {r \in mm.constraints : r.name = name}
RowVars(r) == {tm.var : tm \in r.terms}
AllLabels(mm) ==
    UNION {{[v |-> d.name, sn |-> c[1], i |-> c[2]] : c \in d.labels} :
           d \in mm.variables}

(***************************************************************************)
(* Variable allocator (pypsa/optimization/variables.py).                   *)
(***************************************************************************)
\* faulty variant: the variable keeps the assets of the build before
define_operational_variables_stale(mm, c, attr) ==
    IF DOMAIN n_prev.df[c] = {} THEN mm
    ELSE LET coords == sns \X DOMAIN n_prev.df[c]
         IN add_variables(mm, NegInf, NoUpper(coords), coords,
                          c \o "-" \o attr, coords, FALSE)

define_operational_variables(mm, c, attr) ==
    IF Index(c) = {} THEN mm
    ELSE LET active == active_or_none(c, sns, Index(c))
             coords == sns \X Index(c)
         IN add_variables(mm, NegInf, NoUpper(coords), coords,
                          c \o "-" \o attr, active, FALSE)

define_committability_variables(mm, c) ==
    LET com_i == get_committable_i(c)
        active == active_or_none(c, sns, com_i)
        coords == sns \X com_i
        is_integer == ~n.linearized_uc
        m1 == add_variables(mm, 0, NoUpper(coords), coords,
                            c \o "-status", active, is_integer)
        m2 == add_variables(m1, 0, NoUpper(coords), coords,
                            c \o "-start_up", active, is_integer)
        m3 == add_variables(m2, 0, NoUpper(coords), coords,
                            c \o "-shut_down", active, is_integer)
    IN IF com_i = {} THEN mm ELSE m3

define_nominal_variables(mm, c, attr) ==
    LET ext_i == get_extendable_i(c)
        coords == {0} \X ext_i
    IN IF ext_i = {} THEN mm
       ELSE add_variables(mm, NegInf, NoUpper(coords), coords,
                          c \o "-" \o attr, coords, FALSE)

\* faulty variant: the query forgets the module size
modular_i_all_extendable(c, attr) ==
    {a \in Index(c) : df(c)[a][attr \o "_extendable"]}

\* the assets of the query "{attr}_extendable and ({attr}_mod>0)"
modular_i(c, attr) ==
    {a \in Index(c) :
        df(c)[a][attr \o "_extendable"] /\ df(c)[a][attr \o "_mod"] > 0}

define_modular_variables(mm, c, attr) ==
    LET mod_i == modular_i(c, attr)
        coords == {0} \X mod_i
    IN IF mod_i = {} THEN mm
       ELSE add_variables(mm, 0, NoUpper(coords), coords, c \o "-n_mod",
                          coords, TRUE)

define_spillage_variables(mm) ==
    LET c == "StorageUnit"
        coords == sns \X Index(c)
        upper == [cell \in coords |-> df(c)[cell[2]].inflow]
        active == {cell \in get_activity_mask(c, sns, Index(c)) :
                     upper[cell] > 0}
    IN IF Index(c) = {} THEN mm
       ELSE IF \A a \in Index(c) : df(c)[a].inflow <= 0 THEN mm
       ELSE add_variables(mm, 0, upper, coords, "StorageUnit-spill", active,
                          FALSE)

define_loss_variables(mm, c) ==
    IF Index(c) = {} \/ c \notin passive_branch_components THEN mm
    ELSE LET active == active_or_none(c, sns, Index(c))
             coords == sns \X Index(c)
         IN add_variables(mm, 0, NoUpper(coords), coords, c \o "-loss",
                          active, FALSE)

(***************************************************************************)
(* Attribute resolver: per-unit dispatch bounds of one asset.              *)
(***************************************************************************)
get_bounds_pu(c, a, attr) ==
    IF c \in passive_branch_components
    THEN [min |-> 0 - df(c)[a].s_max_pu, max |-> df(c)[a].s_max_pu]
    ELSE IF c = "StorageUnit"
    THEN [min |-> 0,
          max |-> IF attr = "p_store" THEN 0 - df(c)[a].p_min_pu
                  ELSE IF attr = "state_of_charge" THEN df(c)[a].max_hours
                  ELSE df(c)[a].p_max_pu]
    ELSE IF c = "Store"
    THEN [min |-> df(c)[a].e_min_pu, max |-> df(c)[a].e_max_pu]
    ELSE [min |-> df(c)[a].p_min_pu, max |-> df(c)[a].p_max_pu]

\* faulty variant: the loss never enters the dispatch bounds
lossy_never(c) == FALSE
\* whether the loss variable of c enters the dispatch bounds
lossy(c) == c \in passive_branch_components /\ n.transmission_losses > 0

(***************************************************************************)
(* Constraint builder: dispatch and capacity (constraints.py).             *)
(***************************************************************************)
define_operational_constraints_for_non_extendables_and_non_committables(mm, c, attr) ==
    LET fix_i == get_non_extendable_i(c) \ get_committable_i(c)
        nominal_fix(a) == df(c)[a][nominal_attrs(c)]
        lower(a) == get_bounds_pu(c, a, attr).min * nominal_fix(a)
        upper(a) == get_bounds_pu(c, a, attr).max * nominal_fix(a)
        active == active_or_none(c, sns, fix_i)
        var == c \o "-" \o attr
        loss(coef, t, a) ==
            IF lossy(c) THEN Term(mm, coef, c \o "-loss", t, a) ELSE {}
        name_lower == c \o "-fix-non-comm-" \o attr \o "-lower"
        name_upper == c \o "-fix-non-comm-" \o attr \o "-upper"
        m1 == add_constraints(mm, name_lower,
                {Row(name_lower, cell[1], cell[2],
                     Term(mm, 1, var, cell[1], cell[2])
                        \cup loss(-1, cell[1], cell[2]),
                     ">=", lower(cell[2])) : cell \in active})
        m2 == add_constraints(m1, name_upper,
                {Row(name_upper, cell[1], cell[2],
                     Term(mm, 1, var, cell[1], cell[2])
                        \cup loss(1, cell[1], cell[2]),
                     "<=", upper(cell[2])) : cell \in active})
    IN IF fix_i = {} THEN mm ELSE m2

\* the assets of the query "({nominal}_mod>0)" and of "({nominal}_mod==0)"
mod_i_of(c) == {a \in Index(c) : df(c)[a][nominal_attrs(c) \o "_mod"] > 0}
not_mod_i_of(c) == {a \in Index(c) : df(c)[a][nominal_attrs(c) \o "_mod"] = 0}

define_operational_constraints_for_extendables_but_non_committables(mm, c, attr) ==
    LET ext_i == get_extendable_i(c)
        com_i == get_committable_i(c)
        mod_i == mod_i_of(c)
        inter_i == (ext_i \ com_i) \cup ((ext_i \cap com_i) \ mod_i)
        min_pu(a) == get_bounds_pu(c, a, attr).min
        max_pu(a) == get_bounds_pu(c, a, attr).max
        var == c \o "-" \o attr
        capacity == c \o "-" \o nominal_attrs(c)
        active == active_or_none(c, sns, ext_i)
        loss(coef, t, a) ==
            IF lossy(c) THEN Term(mm, coef, c \o "-loss", t, a) ELSE {}
        name_lower == c \o "-ext-non-comm-" \o attr \o "-lower"
        name_upper == c \o "-ext-non-comm-" \o attr \o "-upper"
        m1 == add_constraints(mm, name_lower,
                {Row(name_lower, cell[1], cell[2],
                     Term(mm, 1, var, cell[1], cell[2])
                        \cup Term(mm, 0 - min_pu(cell[2]), capacity, 0, cell[2])
                        \cup loss(-1, cell[1], cell[2]),
                     ">=", 0) : cell \in active})
        m2 == add_constraints(m1, name_upper,
                {Row(name_upper, cell[1], cell[2],
                     Term(mm, 1, var, cell[1], cell[2])
                        \cup Term(mm, 0 - max_pu(cell[2]), capacity, 0, cell[2])
                        \cup loss(1, cell[1], cell[2]),
                     "<=", 0) : cell \in active})
    IN IF inter_i = {} THEN mm ELSE m2

\* faulty variant: the mask of the upper row is applied to the lower row too
define_nominal_constraints_for_extendables_masked(mm, c, attr) ==
    LET ext_i == get_extendable_i(c)
        capacity == c \o "-" \o attr
        mask == {a \in ext_i : df(c)[a][attr \o "_max"] # Inf}
        name_lower == c \o "-ext-" \o attr \o "-lower"
        name_upper == c \o "-ext-" \o attr \o "-upper"
        m1 == add_constraints(mm, name_lower,
                {Row(name_lower, 0, a, Term(mm, 1, capacity, 0, a),
                     ">=", df(c)[a][attr \o "_min"]) : a \in mask})
        m2 == add_constraints(m1, name_upper,
                {Row(name_upper, 0, a, Term(mm, 1, capacity, 0, a),
                     "<=", df(c)[a][attr \o "_max"]) : a \in mask})
    IN IF ext_i = {} THEN mm ELSE m2

define_nominal_constraints_for_extendables(mm, c, attr) ==
    LET ext_i == get_extendable_i(c)
        capacity == c \o "-" \o attr
        lower(a) == df(c)[a][attr \o "_min"]
        upper(a) == df(c)[a][attr \o "_max"]
        mask == {a \in ext_i : upper(a) # Inf}
        name_lower == c \o "-ext-" \o attr \o "-lower"
        name_upper == c \o "-ext-" \o attr \o "-upper"
        m1 == add_constraints(mm, name_lower,
                {Row(name_lower, 0, a, Term(mm, 1, capacity, 0, a),
                     ">=", lower(a)) : a \in ext_i})
        m2 == add_constraints(m1, name_upper,
                {Row(name_upper, 0, a, Term(mm, 1, capacity, 0, a),
                     "<=", upper(a)) : a \in mask})
    IN IF ext_i = {} THEN mm ELSE m2

\* the assets with a value in the column {attr}_set of the table; a cell
\* without value is NaN, and the table may lack the column
fixed_nominal(c, attr) ==
    {a \in Index(c) : /\ (attr \o "_set") \in DOMAIN df(c)[a]
                      /\ df(c)[a][attr \o "_set"] # NaN}
\* n.model[name] and reindex raise KeyError when the capacity variable is
\* not declared or has no entry for an asset with a set value
fixed_nominal_raises(mm, c, attr) ==
    LET fix == fixed_nominal(c, attr)
        capacity == c \o "-" \o attr
    IN /\ fix # {}
       /\ \/ ~HasVar(mm, capacity)
          \/ \E a \in fix : <<0, a>> \notin Var(mm, capacity).coords
define_fixed_nominal_constraints(mm, c, attr) ==
    LET fix == fixed_nominal(c, attr)
        name == c \o "-" \o attr \o "_set"
    IN IF fix = {} THEN mm
       ELSE add_constraints(mm, name,
                {Row(name, 0, a, Term(mm, 1, c \o "-" \o attr, 0, a),
                     "=", df(c)[a][attr \o "_set"]) : a \in fix})

define_modular_constraints(mm, c, attr) ==
    LET mod_i == modular_i(c, attr)
        modular_capacity(a) == df(c)[a][attr \o "_mod"]
        name == c \o "-" \o attr \o "_modularity"
    IN IF mod_i = {} THEN mm
       ELSE add_constraints(mm, name,
                {Row(name, 0, a,
                     Term(mm, 1, c \o "-" \o attr, 0, a)
                        \cup Term(mm, 0 - modular_capacity(a), c \o "-n_mod",
                                  0, a),
                     "=", 0) : a \in mod_i})

\* n.pnl(c)[attr + "_set"]: asset -> snapshot -> value, NaN where no value
\* is set; the series of a component without set values has no column
pnl_set(c, attr) ==
    IF <<c, attr>> \in DOMAIN n.pnl_set THEN n.pnl_set[<<c, attr>>] ELSE << >>
\* n.model[name] and reindex raise KeyError when the variable is not
\* declared or a column of the series is no asset of the component
fixed_operation_raises(mm, c, attr) ==
    LET columns == DOMAIN pnl_set(c, attr)
        name == c \o "-" \o attr
    IN /\ columns # {} /\ sns # {}
       /\ \/ ~HasVar(mm, name)
          \/ \E a \in columns : a \notin Index(c)
define_fixed_operation_constraints(mm, c, attr) ==
    LET fix == pnl_set(c, attr)
        columns == DOMAIN fix
        notna == {<<t, a>> \in sns \X columns : fix[a][t] # NaN}
        mask == IF n.multi_invest
                THEN notna \cap get_activity_mask(c, sns, columns)
                ELSE notna
        name == c \o "-" \o attr \o "_set"
    IN IF columns = {} \/ sns = {} THEN mm
       ELSE add_constraints(mm, name,
                {Row(name, cell[1], cell[2],
                     Term(mm, 1, c \o "-" \o attr, cell[1], cell[2]),
                     "=", fix[cell[2]][cell[1]]) : cell \in mask})

(***************************************************************************)
(* Constraint builder: unit commitment.                                    *)
(***************************************************************************)
\* faulty variant: the multiple is checked for the extendable assets
fixed_upper_limit_raises_extendable(c, attr) ==
    \E a \in (get_committable_i(c) \cap mod_i_of(c)) :
        /\ df(c)[a][attr \o "_extendable"]
        /\ df(c)[a][attr] % df(c)[a][attr \o "_mod"] # 0

\* "p_nom must be a multiple of p_nom_mod" for fixed committable modular assets
fixed_upper_limit_raises(c, attr) ==
    \E a \in (get_committable_i(c) \cap mod_i_of(c)) :
        /\ ~df(c)[a][attr \o "_extendable"]
        /\ df(c)[a][attr] % df(c)[a][attr \o "_mod"] # 0

define_committability_variables_constraints_with_fixed_upper_limit(mm, c, attr) ==
    LET com_i == get_committable_i(c)
        fix_i == {a \in Index(c) : ~df(c)[a][attr \o "_extendable"]}
        mod_i == {a \in Index(c) : df(c)[a][attr \o "_mod"] > 0}
        inter_i == ((com_i \cap mod_i) \cap fix_i) \cup (com_i \ mod_i)
        rhs(a) == IF a \in mod_i
                  THEN df(c)[a][attr] \div df(c)[a][attr \o "_mod"] ELSE 1
        active == active_or_none(c, sns, inter_i)
        upper(mx, v) ==
            LET name == c \o "-" \o v \o "-" \o attr \o "-fixed-upper"
            IN add_constraints(mx, name,
                 {Row(name, cell[1], cell[2],
                      Term(mm, 1, c \o "-" \o v, cell[1], cell[2]),
                      "<=", rhs(cell[2])) : cell \in active})
    IN IF com_i = {} \/ inter_i = {} THEN mm
       ELSE upper(upper(upper(mm, "status"), "start_up"), "shut_down")

\* faulty variant: the extendable index is left out of the intersection
define_committability_variables_constraints_with_variable_upper_limit_all_modular(mm, c, attr) ==
    LET com_i == get_committable_i(c)
        mod_i == {a \in Index(c) : df(c)[a][attr \o "_mod"] > 0}
        inter_i == com_i \cap mod_i
        active == active_or_none(c, sns, inter_i)
        upper(mx, v) ==
            LET name == c \o "-" \o v \o "-" \o attr \o "-variable-upper"
            IN add_constraints(mx, name,
                 {Row(name, cell[1], cell[2],
                      Term(mm, 1, c \o "-" \o v, cell[1], cell[2])
                        \cup Term(mm, 0 - 1, c \o "-n_mod", 0, cell[2]),
                      "<=", 0) : cell \in active})
    IN IF inter_i = {} THEN mm
       ELSE upper(upper(upper(mm, "status"), "start_up"), "shut_down")

define_committability_variables_constraints_with_variable_upper_limit(mm, c, attr) ==
    LET com_i == get_committable_i(c)
        ext_i == {a \in Index(c) : df(c)[a][attr \o "_extendable"]}
        mod_i == {a \in Index(c) : df(c)[a][attr \o "_mod"] > 0}
        inter_i == (com_i \cap mod_i) \cap ext_i
        active == active_or_none(c, sns, inter_i)
        upper(mx, v) ==
            LET name == c \o "-" \o v \o "-" \o attr \o "-variable-upper"
            IN add_constraints(mx, name,
                 {Row(name, cell[1], cell[2],
                      Term(mm, 1, c \o "-" \o v, cell[1], cell[2])
                        \cup Term(mm, 0 - 1, c \o "-n_mod", 0, cell[2]),
                      "<=", 0) : cell \in active})
    IN IF inter_i = {} THEN mm
       ELSE upper(upper(upper(mm, "status"), "start_up"), "shut_down")

\* x.shift(snapshot=1): the term of the snapshot before t, none at sns[0]
Shift(mm, coef, name, t, a) ==
    IF t = n.sns0 THEN {} ELSE Term(mm, coef, name, t - 1, a)

\* x.rolling(snapshot=w).sum(): the terms of the w snapshots that end at t
Rolling(mm, name, w, t, a) ==
    UNION {Term(mm, 1, name, u, a) : u \in {x \in sns : t - w < x /\ x <= t}}

fillna(x, v) == IF x = NaN THEN v ELSE x

\* until_start_up: the stored status before sns[0], the latest first
until_start_up(a) == [i \in 1..(n.sns0 - 1) |-> n.pnl_status[a][n.sns0 - i]]
\* until_start_down: 1 where the stored status is zero
until_start_down(a) ==
    [i \in 1..(n.sns0 - 1) |-> IF until_start_up(a)[i] = 0 THEN 1 ELSE 0]
\* x[x.cumsum().eq(ref)].sum(): the sum of the entries of x at the positions
\* where the running sum of x equals the position
sum_where_cumsum_is_ref(x) ==
    LET cumsum(i) == SumSet(1..i, x)
        kept == {i \in DOMAIN x : cumsum(i) = i}
    IN SumSet(kept, x)
\* up_time_before (on = 1) and down_time_before (on = 0) of asset a, from
\* the stored status before the window
time_before(c, a, on) ==
    IF on = 1 THEN sum_where_cumsum_is_ref(until_start_up(a))
    ELSE sum_where_cumsum_is_ref(until_start_down(a))

\* up_time_before_set and down_time_before_set of asset a
before_set(c, a) ==
    IF n.sns0 # 1
    THEN [up |-> Min({time_before(c, a, 1), df(c)[a].min_up_time}),
          down |-> Min({time_before(c, a, 0), df(c)[a].min_down_time})]
    ELSE [up |-> df(c)[a].up_time_before, down |-> df(c)[a].down_time_before]
initially_up(c, a) == before_set(c, a).up # 0
initially_down(c, a) == before_set(c, a).down # 0

\* lower and upper dispatch level limit of the committable assets com_i
committable_dispatch_rows(mm, c, com_i, nominal, prefix, suffix) ==
    LET active == active_or_none(c, sns, com_i)
        lower_p(a) == get_bounds_pu(c, a, "p").min * nominal[a]
        upper_p(a) == get_bounds_pu(c, a, "p").max * nominal[a]
    IN {Row(c \o prefix \o "p-lower" \o suffix, cell[1], cell[2],
             Term(mm, 1, c \o "-p", cell[1], cell[2])
               \cup Term(mm, 0 - lower_p(cell[2]), c \o "-status",
                         cell[1], cell[2]),
             ">=", 0) : cell \in active}
       \cup
       {Row(c \o prefix \o "p-upper" \o suffix, cell[1], cell[2],
             Term(mm, 1, c \o "-p", cell[1], cell[2])
               \cup Term(mm, 0 - upper_p(cell[2]), c \o "-status",
                         cell[1], cell[2]),
             "<=", 0) : cell \in active}

\* faulty variant: the shut-down transition row is left out
committable_transition_rows_start_only(mm, c, com_i, prefix, suffix) ==
    {Row(c \o prefix \o "transition-start-up" \o suffix, cell[1], cell[2],
          Term(mm, 1, c \o "-start_up", cell[1], cell[2])
            \cup Term(mm, 0 - 1, c \o "-status", cell[1], cell[2])
            \cup Shift(mm, 1, c \o "-status", cell[1], cell[2]),
          ">=", IF cell[1] = n.sns0 /\ initially_up(c, cell[2]) THEN 0 - 1 ELSE 0)
       : cell \in active_or_none(c, sns, com_i)}

\* state-transition constraints: start_up - status_diff >= rhs and
\* shut_down + status_diff >= rhs, status_diff = status - status.shift(1)
committable_transition_rows(mm, c, com_i, prefix, suffix) ==
    LET active == active_or_none(c, sns, com_i)
        first(t, a) == t = n.sns0 /\ initially_up(c, a)
    IN {Row(c \o prefix \o "transition-start-up" \o suffix, cell[1], cell[2],
             Term(mm, 1, c \o "-start_up", cell[1], cell[2])
               \cup Term(mm, 0 - 1, c \o "-status", cell[1], cell[2])
               \cup Shift(mm, 1, c \o "-status", cell[1], cell[2]),
             ">=", IF first(cell[1], cell[2]) THEN 0 - 1 ELSE 0)
          : cell \in active}
       \cup
       {Row(c \o prefix \o "transition-shut-down" \o suffix, cell[1], cell[2],
             Term(mm, 1, c \o "-shut_down", cell[1], cell[2])
               \cup Term(mm, 1, c \o "-status", cell[1], cell[2])
               \cup Shift(mm, 0 - 1, c \o "-status", cell[1], cell[2]),
             ">=", IF first(cell[1], cell[2]) THEN 1 ELSE 0)
          : cell \in active}

\* minimum up time and minimum down time over the snapshots sns[1:]
committable_min_time_rows(mm, c, com_i, prefix, suffix) ==
    LET min_up_time_i == {a \in com_i : df(c)[a].min_up_time # 0}
        min_down_time_i == {a \in com_i : df(c)[a].min_down_time # 0}
    IN {Row(c \o prefix \o "up-time" \o suffix, cell[1], cell[2],
             Term(mm, 0 - 1, c \o "-status", cell[1], cell[2])
               \cup Rolling(mm, c \o "-start_up", df(c)[cell[2]].min_up_time,
                            cell[1], cell[2]),
             "<=", 0)
          : cell \in get_activity_mask(c, sns_tail, min_up_time_i)}
       \cup
       {Row(c \o prefix \o "down-time" \o suffix, cell[1], cell[2],
             Term(mm, 1, c \o "-status", cell[1], cell[2])
               \cup Rolling(mm, c \o "-shut_down",
                            df(c)[cell[2]].min_down_time, cell[1], cell[2]),
             "<=", 1)
          : cell \in get_activity_mask(c, sns_tail, min_down_time_i)}

\* the initial state holds until the minimum up or down time has passed
committable_must_stay_rows(mm, c, com_i, prefix, suffix) ==
    LET active == active_or_none(c, sns, com_i)
        timesteps(t) == t - n.sns0 + 1
        must_stay_up(a) ==
            Clip0(df(c)[a].min_up_time - before_set(c, a).up)
        must_stay_down(a) ==
            Clip0(df(c)[a].min_down_time - before_set(c, a).down)
    IN {Row(c \o prefix \o "status-min_up_time_must_stay_up" \o suffix,
             cell[1], cell[2],
             Term(mm, 1, c \o "-status", cell[1], cell[2]), "=", 1)
          : cell \in {x \in active : /\ must_stay_up(x[2]) >= timesteps(x[1])
                                     /\ initially_up(c, x[2])}}
       \cup
       {Row(c \o prefix \o "status-min_down_time_must_stay_up" \o suffix,
             cell[1], cell[2],
             Term(mm, 1, c \o "-status", cell[1], cell[2]), "=", 0)
          : cell \in {x \in active : /\ must_stay_down(x[2]) >= timesteps(x[1])
                                     /\ initially_down(c, x[2])}}

\* the additional rows of the linearized unit commitment, over sns[1:]
committable_tightening_rows(mm, c, com_i, nominal, prefix, suffix) ==
    LET active == {x \in active_or_none(c, sns, com_i) : x[1] \in sns_tail}
        lower_p(a) == get_bounds_pu(c, a, "p").min * nominal[a]
        upper_p(a) == get_bounds_pu(c, a, "p").max * nominal[a]
        ramp_up_limit(a) == nominal[a] * fillna(df(c)[a].ramp_limit_up, 1)
        ramp_down_limit(a) == nominal[a] * fillna(df(c)[a].ramp_limit_down, 1)
        ramp_start_up(a) == nominal[a] * df(c)[a].ramp_limit_start_up
        ramp_shut_down(a) == nominal[a] * df(c)[a].ramp_limit_shut_down
        p == c \o "-p"
        status == c \o "-status"
        start_up == c \o "-start_up"
    IN {Row(c \o prefix \o "p-before" \o suffix, x[1], x[2],
             Shift(mm, 1, p, x[1], x[2])
               \cup Shift(mm, 0 - ramp_shut_down(x[2]), status, x[1], x[2])
               \cup Term(mm, 0 - (upper_p(x[2]) - ramp_shut_down(x[2])),
                         status, x[1], x[2])
               \cup Term(mm, upper_p(x[2]) - ramp_shut_down(x[2]),
                         start_up, x[1], x[2]),
             "<=", 0) : x \in active}
       \cup
       {Row(c \o prefix \o "p-current" \o suffix, x[1], x[2],
             Term(mm, 1, p, x[1], x[2])
               \cup Term(mm, 0 - upper_p(x[2]), status, x[1], x[2])
               \cup Term(mm, upper_p(x[2]) - ramp_start_up(x[2]),
                         start_up, x[1], x[2]),
             "<=", 0) : x \in active}
       \cup
       {Row(c \o prefix \o "partly-start-up" \o suffix, x[1], x[2],
             Term(mm, 1, p, x[1], x[2])
               \cup Shift(mm, 0 - 1, p, x[1], x[2])
               \cup Term(mm, 0 - (lower_p(x[2]) + ramp_up_limit(x[2])),
                         status, x[1], x[2])
               \cup Shift(mm, lower_p(x[2]), status, x[1], x[2])
               \cup Term(mm, lower_p(x[2]) + ramp_up_limit(x[2])
                               - ramp_start_up(x[2]),
                         start_up, x[1], x[2]),
             "<=", 0) : x \in active}
       \cup
       {Row(c \o prefix \o "partly-shut-down" \o suffix, x[1], x[2],
             Shift(mm, 1, p, x[1], x[2])
               \cup Term(mm, 0 - 1, p, x[1], x[2])
               \cup Shift(mm, 0 - ramp_shut_down(x[2]), status, x[1], x[2])
               \cup Term(mm, ramp_shut_down(x[2]) - ramp_down_limit(x[2]),
                         status, x[1], x[2])
               \cup Term(mm, 0 - (lower_p(x[2]) + ramp_down_limit(x[2])
                                    - ramp_shut_down(x[2])),
                         start_up, x[1], x[2]),
             "<=", 0) : x \in active}

\* faulty variant: the costs of one asset are equal (any instead of all)
cost_equal_any(c, com_i) ==
    \E a \in com_i : df(c)[a].start_up_cost = df(c)[a].shut_down_cost

\* only valid if the start up costs equal the shut down costs
cost_equal(c, com_i) ==
    \A a \in com_i : df(c)[a].start_up_cost = df(c)[a].shut_down_cost

\* "The linear relaxation of the unit commitment cannot be tightened ..."
not_tightened == "The linear relaxation of the unit commitment cannot be tightened"
\* the routine for the assets com_i logs the warning
committable_warns(c, com_i) ==
    com_i # {} /\ n.linearized_uc /\ ~cost_equal(c, com_i)

\* the rows of one of the two committable routines, which differ in the
\* assets, the nominal value and the names of the rows
committable_rows(mm, c, com_i, nominal, prefix, suffix) ==
    committable_dispatch_rows(mm, c, com_i, nominal, prefix, suffix)
    \cup committable_transition_rows(mm, c, com_i, prefix, suffix)
    \cup committable_min_time_rows(mm, c, com_i, prefix, suffix)
    \cup committable_must_stay_rows(mm, c, com_i, prefix, suffix)
    \cup (IF n.linearized_uc /\ cost_equal(c, com_i)
          THEN committable_tightening_rows(mm, c, com_i, nominal, prefix,
                                           suffix)
          ELSE {})

define_operational_constraints_for_committables_and_modular(mm, c) ==
    LET com_i == get_committable_i(c) \cap mod_i_of(c)
        nominal == [a \in com_i |-> df(c)[a][nominal_attrs(c) \o "_mod"]]
    IN IF com_i = {} THEN mm
       ELSE add_all_constraints(mm,
              committable_rows(mm, c, com_i, nominal, "-com-mod-",
                               "-committable-modular"))

define_operational_constraints_for_committables_non_modular_non_extendables(mm, c) ==
    LET com_i == (get_committable_i(c) \cap not_mod_i_of(c))
                    \cap get_non_extendable_i(c)
        nominal == [a \in com_i |-> df(c)[a][nominal_attrs(c)]]
    IN IF com_i = {} THEN mm
       ELSE add_all_constraints(mm,
              committable_rows(mm, c, com_i, nominal, "-com-non-mod-fix-", ""))

(***************************************************************************)
(* Constraint builder: ramp limits.                                        *)
(***************************************************************************)
\* the component tables that carry ramp_limit_up and ramp_limit_down
has_ramp_limits(c) == c = "Generator"

\* the build starts after the first snapshot and a dispatch was solved before
is_rolling_horizon == n.sns0 # 1 /\ DOMAIN n.pnl_p # {}
\* the snapshots that get a ramp row
ramp_sns == IF is_rolling_horizon THEN sns ELSE sns_tail
\* the dispatch solved for the snapshot before sns[0]
rhs_start(t, a) ==
    IF is_rolling_horizon /\ t = n.sns0 THEN n.pnl_p[a][n.sns0 - 1] ELSE 0
\* the status solved for the snapshot before sns[0]
status_start(t, a) ==
    IF is_rolling_horizon /\ t = n.sns0 THEN n.pnl_status[a][n.sns0 - 1] ELSE 0

\* active cells of idx whose limit is not null
ramp_mask(c, idx, limit) ==
    {x \in get_activity_mask(c, ramp_sns, idx) : df(c)[x[2]][limit] # NaN}

\* p_actual - p_previous
ramp_lhs(mm, c, t, a) ==
    Term(mm, 1, c \o "-p", t, a) \cup Shift(mm, 0 - 1, c \o "-p", t, a)

\* fixed and non committable assets
ramp_fix_rows(mm, c, fix_i) ==
    LET p_nom(a) == df(c)[a][nominal_attrs(c)]
    IN {Row(c \o "-fix-non-comm-p-ramp_limit_up", x[1], x[2],
             ramp_lhs(mm, c, x[1], x[2]), "<=",
             df(c)[x[2]].ramp_limit_up * p_nom(x[2]) + rhs_start(x[1], x[2]))
          : x \in ramp_mask(c, fix_i, "ramp_limit_up")}
       \cup
       {Row(c \o "-fix-non-comm-p-ramp_limit_down", x[1], x[2],
             ramp_lhs(mm, c, x[1], x[2]), ">=",
             (0 - df(c)[x[2]].ramp_limit_down) * p_nom(x[2])
                + rhs_start(x[1], x[2]))
          : x \in ramp_mask(c, fix_i, "ramp_limit_down")}

\* extendable assets: the limit is a share of the capacity variable
ramp_ext_rows(mm, c, ext_i, kind) ==
    {Row(c \o kind \o "p-ramp_limit_up", x[1], x[2],
          ramp_lhs(mm, c, x[1], x[2])
            \cup Term(mm, 0 - df(c)[x[2]].ramp_limit_up, c \o "-p_nom", 0, x[2]),
          "<=", rhs_start(x[1], x[2]))
       : x \in ramp_mask(c, ext_i, "ramp_limit_up")}
    \cup
    {Row(c \o kind \o "p-ramp_limit_down", x[1], x[2],
          ramp_lhs(mm, c, x[1], x[2])
            \cup Term(mm, df(c)[x[2]].ramp_limit_down, c \o "-p_nom", 0, x[2]),
          ">=", rhs_start(x[1], x[2]))
       : x \in ramp_mask(c, ext_i, "ramp_limit_down")}

\* committable assets: the limit depends on the status before and after
ramp_com_rows(mm, c, com_i, nominal, kind) ==
    LET limit_start(a) == df(c)[a].ramp_limit_start_up * df(c)[a][nominal]
        limit_up(a) == df(c)[a].ramp_limit_up * df(c)[a][nominal]
        limit_shut(a) == df(c)[a].ramp_limit_shut_down * df(c)[a][nominal]
        limit_down(a) == df(c)[a].ramp_limit_down * df(c)[a][nominal]
        status == c \o "-status"
    IN {Row(c \o kind \o "p-ramp_limit_up", x[1], x[2],
             ramp_lhs(mm, c, x[1], x[2])
               \cup Shift(mm, limit_start(x[2]) - limit_up(x[2]), status,
                          x[1], x[2])
               \cup Term(mm, 0 - limit_start(x[2]), status, x[1], x[2]),
             "<=",
             rhs_start(x[1], x[2])
               + (limit_up(x[2]) - limit_start(x[2])) * status_start(x[1], x[2]))
          : x \in ramp_mask(c, com_i, "ramp_limit_up")}
       \cup
       {Row(c \o kind \o "p-ramp_limit_down", x[1], x[2],
             ramp_lhs(mm, c, x[1], x[2])
               \cup Term(mm, limit_down(x[2]) - limit_shut(x[2]), status,
                         x[1], x[2])
               \cup Shift(mm, limit_shut(x[2]), status, x[1], x[2]),
             ">=",
             rhs_start(x[1], x[2])
               + (0 - limit_shut(x[2])) * status_start(x[1], x[2]))
          : x \in ramp_mask(c, com_i, "ramp_limit_down")}

\* no limit is set at all, or every limit is 1
ramp_limits_absent(c) ==
    \/ ~has_ramp_limits(c)
    \/ \A a \in Index(c) : /\ df(c)[a].ramp_limit_up = NaN
                           /\ df(c)[a].ramp_limit_down = NaN
    \/ \A a \in Index(c) : /\ df(c)[a].ramp_limit_up = 1
                           /\ df(c)[a].ramp_limit_down = 1

define_ramp_limit_constraints(mm, c, attr) ==
    LET com_i == get_committable_i(c)
        fix_i == get_non_extendable_i(c)
        ext_i == get_extendable_i(c)
    IN IF ramp_limits_absent(c) THEN mm
       ELSE add_all_constraints(mm,
              ramp_fix_rows(mm, c, fix_i \ com_i)
              \cup ramp_ext_rows(mm, c, ext_i \ com_i, "-ext-non-comm-")
              \cup ramp_ext_rows(mm, c, (ext_i \cap com_i) \cap not_mod_i_of(c),
                                 "-ext-comm-non-mod-")
              \cup ramp_com_rows(mm, c, (com_i \cap fix_i) \cap not_mod_i_of(c),
                                 nominal_attrs(c), "-com-non-ext-non-mod-")
              \cup ramp_com_rows(mm, c, com_i \cap mod_i_of(c),
                                 nominal_attrs(c) \o "_mod", "-com-mod-"))

(***************************************************************************)
(* Constraint builder: Kirchhoff voltage law.  The topology (sub-networks  *)
(* and their cycle matrix) is derived by the network, not by the builder.  *)
(***************************************************************************)
\* the investment periods of the build; 0 stands for `None`
kvl_periods == IF n.multi_invest THEN {period(t) : t \in sns} ELSE {0}
\* sns, or the snapshots of sns in investment period p
kvl_snapshots(p) == IF p = 0 THEN sns ELSE {t \in sns : period(t) = p}
\* the passive branches of the topology of period p
topology_branches(p) ==
    {l \in Index("Line") :
        \/ p = 0
        \/ /\ df("Line")[l].build_year <= p
           /\ p < df("Line")[l].build_year + df("Line")[l].lifetime}

\* the buses connected to the buses of S by the branches of E
RECURSIVE connected(_, _)
connected(E, S) ==
    LET more == S \cup {df("Line")[l].bus1 : l \in {x \in E : df("Line")[x].bus0 \in S}}
                  \cup {df("Line")[l].bus0 : l \in {x \in E : df("Line")[x].bus1 \in S}}
    IN IF more = S THEN S ELSE connected(E, more)
\* n.sub_networks: the connected sets of buses, isolated buses skipped
sub_networks(p) ==
    LET E == topology_branches(p)
    IN {connected(E, {b}) :
          b \in {df("Line")[l].bus0 : l \in E} \cup {df("Line")[l].bus1 : l \in E}}
\* sub.branches()
sub_branches(p, sub) ==
    {l \in topology_branches(p) : df("Line")[l].bus0 \in sub}

\* the signed branches of the path from bus x to bus y in the tree T
RECURSIVE tree_path(_, _, _)
tree_path(T, x, y) ==
    IF x = y THEN {}
    ELSE LET next(l) == IF df("Line")[l].bus0 = x THEN df("Line")[l].bus1
                        ELSE df("Line")[l].bus0
             l == CHOOSE e \in T :
                     /\ x \in {df("Line")[e].bus0, df("Line")[e].bus1}
                     /\ y \in connected(T \ {e}, {next(e)})
         IN {[branch |-> l,
              dir |-> IF df("Line")[l].bus0 = x THEN 1 ELSE 0 - 1]}
              \cup tree_path(T \ {l}, next(l), y)
\* sub.C: one column per branch outside a spanning tree of the sub-network,
\* the cycle it closes with the tree; a column maps a branch to 1 if the
\* cycle runs along it, -1 if against it, 0 if the branch is not on it
cycle_matrix(p, sub) ==
    LET E == sub_branches(p, sub)
        root == CHOOSE b \in sub : TRUE
        T == CHOOSE tree \in SUBSET E :
                /\ Cardinality(tree) = Cardinality(sub) - 1
                /\ connected(tree, {root}) = sub
        column(e) ==
            LET path == tree_path(T, df("Line")[e].bus1, df("Line")[e].bus0)
            IN [l \in E |->
                  IF l = e THEN 1
                  ELSE IF \E s \in path : s.branch = l
                  THEN (CHOOSE s \in path : s.branch = l).dir
                  ELSE 0]
    IN {column(e) : e \in E \ T}

\* the elements of a finite set in some order
RECURSIVE enumerate(_)
enumerate(S) ==
    IF S = {} THEN << >>
    ELSE LET x == CHOOSE y \in S : TRUE IN <<x>> \o enumerate(S \ {x})

\* n.calculate_dependent_values(): every line takes the nominal voltage of
\* its bus0 and its per-unit reactance and resistance x / v_nom^2 and
\* r / v_nom^2, which are the effective values of a line as well; the
\* quotient is exact for the lines of the networks below
calculate_dependent_values(net) ==
    LET lines == net.df["Line"]
        v_nom(l) == net.df["Bus"][lines[l].bus0].v_nom
        pu(l, z) == z \div (v_nom(l) * v_nom(l))
    IN [net EXCEPT !.df["Line"] =
          [l \in DOMAIN lines |->
              [lines[l] EXCEPT !.v_nom = v_nom(l),
                               !.x_pu = pu(l, lines[l].x),
                               !.r_pu = pu(l, lines[l].r),
                               !.x_pu_eff = pu(l, lines[l].x),
                               !.r_pu_eff = pu(l, lines[l].r)]]]

\* the factor 1e5 every coefficient is scaled by
kvl_scale == 100000
\* faulty variant: the reactance whatever the carrier is
kvl_weightings_ac(sub, l) ==
    calculate_dependent_values(n).df["Line"][l].x_pu_eff
\* branches.x_pu_eff if carrier == "AC" else branches.r_pu_eff, read after
\* the dependent values were calculated
kvl_weightings(sub, l) ==
    LET carrier == df("Bus")[CHOOSE b \in sub : TRUE].carrier
        branches == calculate_dependent_values(n).df["Line"]
    IN IF carrier = "AC" THEN branches[l].x_pu_eff
       ELSE branches[l].r_pu_eff

\* the expressions of period p: the cycles of its sub-networks, numbered
kvl_exprs(p) ==
    enumerate(UNION {{[sub |-> sub, col |-> col] : col \in cycle_matrix(p, sub)}
                       : sub \in sub_networks(p)})

define_kirchhoff_voltage_constraints(mm) ==
    LET name == "Kirchhoff-Voltage-Law"
        rows(p) ==
            LET exprs == kvl_exprs(p)
            IN {Row(name, cell[1], ToString(cell[2] - 1),
                    UNION {Term(mm,
                                kvl_scale * kvl_weightings(exprs[cell[2]].sub, l)
                                   * exprs[cell[2]].col[l],
                                "Line-s", cell[1], l)
                             : l \in {x \in DOMAIN exprs[cell[2]].col :
                                         exprs[cell[2]].col[x] # 0}},
                    "=", 0)
                  : cell \in kvl_snapshots(p) \X (1..Len(exprs))}
    IN IF Index("Line") = {} THEN mm
       ELSE add_all_constraints(mm, UNION {rows(p) : p \in kvl_periods})

(***************************************************************************)
(* Constraint builder: nodal balance and transmission losses.              *)
(***************************************************************************)
\* the component tables that carry a `sign` column
has_sign(c) == c \in {"Generator", "Store", "StorageUnit", "Load"}

\* the common denominator of the coefficients of a nodal balance row: the
\* loss terms enter with -0.5
nodal_balance_den == IF n.transmission_losses > 0 THEN 2 ELSE 1

\* the ports of the links beyond bus0 and bus1: the table has a bus2 column
additional_linkports == {"2"}

\* [component, variable, bus column, sign, efficiency column]; sign is the
\* numerator over nodal_balance_den and is multiplied by the asset's value
\* of the efficiency column, if one is named.  The Transformer table is
\* empty.
nodal_balance_args ==
    LET d == nodal_balance_den
    IN {<<"Generator", "p", "bus", d, "">>,
        <<"Store", "p", "bus", d, "">>,
        <<"StorageUnit", "p_dispatch", "bus", d, "">>,
        <<"StorageUnit", "p_store", "bus", 0 - d, "">>,
        <<"Line", "s", "bus0", 0 - d, "">>,
        <<"Line", "s", "bus1", d, "">>,
        <<"Link", "p", "bus0", 0 - d, "">>,
        <<"Link", "p", "bus1", d, "efficiency">>}
       \cup (IF Index("Link") # {}
             THEN {<<"Link", "p", "bus" \o i, d, "efficiency" \o i>>
                     : i \in additional_linkports}
             ELSE {})
       \cup (IF n.transmission_losses > 0
             THEN {<<"Line", "loss", "bus0", 0 - 1, "">>,
                   <<"Line", "loss", "bus1", 0 - 1, "">>}
             ELSE {})

\* faulty variant: the efficiency of the link ports is left out
nodal_balance_lhs_unit_efficiency(mm, b, t) ==
    merge([arg \in nodal_balance_args |->
        LET c == arg[1]
            port == arg[3] \in {"bus" \o i : i \in additional_linkports}
            cbuses == {a \in Index(c) :
                         /\ df(c)[a][arg[3]] = b
                         /\ port => df(c)[a][arg[3]] # ""}
            eff(a) == IF arg[5] = "" THEN 1 ELSE df(c)[a][arg[5]]
            sign(a) == IF has_sign(c) THEN arg[4] * df(c)[a].sign
                       ELSE arg[4]
        IN UNION {Term(mm, sign(a), c \o "-" \o arg[2], t, a) : a \in cbuses}])

\* the terms of the balance of bus b at snapshot t
nodal_balance_lhs(mm, b, t) ==
    merge([arg \in nodal_balance_args |->
        LET c == arg[1]
            port == arg[3] \in {"bus" \o i : i \in additional_linkports}
            cbuses == {a \in Index(c) :
                         /\ df(c)[a][arg[3]] = b
                         /\ port => df(c)[a][arg[3]] # ""}
            eff(a) == IF arg[5] = "" THEN 1 ELSE df(c)[a][arg[5]]
            sign(a) == IF has_sign(c) THEN arg[4] * df(c)[a].sign
                       ELSE arg[4] * eff(a)
        IN UNION {Term(mm, sign(a), c \o "-" \o arg[2], t, a) : a \in cbuses}])

\* faulty variant: the sign of the loads is forgotten
nodal_balance_rhs_unsigned(b, t) ==
    LET loads == {l \in Index("Load") : df("Load")[l].bus = b}
    IN nodal_balance_den
         * SumSet(loads, [l \in loads |-> 0 - df("Load")[l].p_set])

\* the net load of bus b at snapshot t, over nodal_balance_den
nodal_balance_rhs(b, t) ==
    LET loads == {l \in Index("Load") : df("Load")[l].bus = b}
    IN nodal_balance_den
         * SumSet(loads, [l \in loads |->
                            (0 - df("Load")[l].p_set) * df("Load")[l].sign])

\* the (snapshot, bus) rows without any variable term
empty_nodal_balance(mm) ==
    {cell \in sns \X Index("Bus") :
        nodal_balance_lhs(mm, cell[2], cell[1]) = {}}

\* faulty variant: the empty rows are masked without looking at their load
nodal_balance_raises_never(mm) == FALSE
\* "Empty LHS with non-zero RHS in nodal balance constraint."
nodal_balance_raises(mm) ==
    \E cell \in empty_nodal_balance(mm) :
        nodal_balance_rhs(cell[2], cell[1]) # 0

define_nodal_balance_constraints(mm) ==
    LET mask == (sns \X Index("Bus")) \ empty_nodal_balance(mm)
        name == "Bus-nodal_balance"
    IN add_constraints(mm, name,
          {RowQ(name, cell[1], cell[2],
                nodal_balance_lhs(mm, cell[2], cell[1]), "=",
                nodal_balance_rhs(cell[2], cell[1]), nodal_balance_den)
           : cell \in mask})

\* faulty variant: the s_nom_max column as it is, also for fixed branches
loss_s_nom_max_column(c, a) == df(c)[a].s_nom_max

\* the capacity the loss approximation is built on
loss_s_nom_max(c, a) ==
    IF df(c)[a].s_nom_extendable THEN df(c)[a].s_nom_max ELSE df(c)[a].s_nom

\* "Loss approximation requires finite 's_nom_max' for extendable branches"
loss_constraints_raise(c) ==
    /\ Index(c) # {} /\ c \in passive_branch_components
    /\ \E a \in Index(c) : loss_s_nom_max(c, a) = Inf

\* faulty variant: the line through the origin instead of the tangent
loss_tangent_rows_secant(mm, c, active, tangents, kk, sign) ==
    LET name == c \o "-loss_tangents-" \o ToString(kk) \o "-" \o ToString(sign)
        S(a) == df(c)[a].s_max_pu * loss_s_nom_max(c, a)
        r(a) == df(c)[a].r_pu_eff
    IN {RowQ(name, cell[1], cell[2],
             Term(mm, tangents * tangents, c \o "-loss", cell[1], cell[2])
               \cup Term(mm, sign * 2 * r(cell[2]) * kk * S(cell[2]) * tangents,
                         c \o "-s", cell[1], cell[2]),
             ">=",
             0,
             tangents * tangents) : cell \in active}

\* one tangent row, scaled by tangents^2 so that its numbers are integers
loss_tangent_rows(mm, c, active, tangents, kk, sign) ==
    LET name == c \o "-loss_tangents-" \o ToString(kk) \o "-" \o ToString(sign)
        S(a) == df(c)[a].s_max_pu * loss_s_nom_max(c, a)
        r(a) == df(c)[a].r_pu_eff
    IN {RowQ(name, cell[1], cell[2],
             Term(mm, tangents * tangents, c \o "-loss", cell[1], cell[2])
               \cup Term(mm, sign * 2 * r(cell[2]) * kk * S(cell[2]) * tangents,
                         c \o "-s", cell[1], cell[2]),
             ">=",
             0 - r(cell[2]) * kk * kk * S(cell[2]) * S(cell[2]),
             tangents * tangents) : cell \in active}

define_loss_constraints(mm, c, transmission_losses) ==
    LET tangents == transmission_losses
        active == active_or_none(c, sns, Index(c))
        upper_limit(a) ==
            df(c)[a].r_pu_eff
               * (df(c)[a].s_max_pu * loss_s_nom_max(c, a))
               * (df(c)[a].s_max_pu * loss_s_nom_max(c, a))
        name_upper == c \o "-loss_upper"
        m1 == add_constraints(mm, name_upper,
                {Row(name_upper, cell[1], cell[2],
                     Term(mm, 1, c \o "-loss", cell[1], cell[2]),
                     "<=", upper_limit(cell[2])) : cell \in active})
        tangent_rows ==
            UNION {loss_tangent_rows(mm, c, active, tangents, ks[1], ks[2])
                   : ks \in (1..tangents) \X {0 - 1, 1}}
    IN IF Index(c) = {} \/ c \notin passive_branch_components THEN mm
       ELSE add_all_constraints(m1, tangent_rows)

(***************************************************************************)
(* Constraint builder: energy balance of storage units and stores.         *)
(* A column of labels is a function snapshot -> snapshot of the state      *)
(* variable it refers to, 0 where there is no label (linopy's -1).         *)
(***************************************************************************)
\* forward fill along the snapshots: the latest label at or before t
ffill(lab, t) ==
    LET filled == {u \in sns : u <= t /\ lab[u] # 0}
    IN IF filled = {} THEN 0 ELSE lab[Max(filled)]
\* faulty variant: shift instead of roll, the first snapshot gets no label
roll_shift(lab, t) == IF t = n.sns0 THEN 0 ELSE lab[t - 1]
\* roll(snapshot=1): every label moves one snapshot on, the last to the first
roll(lab, t) == IF t = n.sns0 THEN lab[n.T] ELSE lab[t - 1]

\* soc.where(active).ffill(dim).roll(snapshot=1).ffill(dim)
rolled_state(mm, c, name, a) ==
    LET active == get_activity_mask(c, sns, Index(c))
        where_active == [t \in sns |->
            IF HasLabel(mm, name, t, a) /\ <<t, a>> \in active THEN t ELSE 0]
        f1 == [t \in sns |-> ffill(where_active, t)]
        r == [t \in sns |-> roll(f1, t)]
    IN [t \in sns |-> ffill(r, t)]

\* faulty variant: the first snapshot is left out, active or not
include_previous_first_snapshot(c, a, cyclic) ==
    [t \in sns |-> IF cyclic THEN TRUE ELSE t # n.sns0]

\* (active.cumsum(dim) != 1).where(noncyclic_b, True)
include_previous(c, a, cyclic) ==
    LET active == get_activity_mask(c, sns, Index(c))
        cumsum(t) == Cardinality({u \in sns : u <= t /\ <<u, a>> \in active})
    IN [t \in sns |-> IF cyclic THEN TRUE ELSE cumsum(t) # 1]

\* the snapshots of the investment period of t
period_sns(t) == {u \in sns : period(u) = period(t)}
\* the state labels rolled by one snapshot inside each investment period
rolled_state_pp(mm, name, a) ==
    [t \in sns |->
        LET u == IF t = Min(period_sns(t)) THEN Max(period_sns(t)) ELSE t - 1
        IN IF HasLabel(mm, name, u, a) THEN u ELSE 0]

\* (active & (periods == periods.shift(snapshot=1))).where(noncyclic_b, True)
include_previous_pp(c, a, cyclic) ==
    LET active == get_activity_mask(c, sns, Index(c))
    IN [t \in sns |->
          IF cyclic THEN TRUE
          ELSE /\ <<t, a>> \in active
               /\ t # n.sns0
               /\ period(t) = period(t - 1)]

\* the previous state of asset a and whether a row includes it; the
\* snapshots are a MultiIndex exactly in a multi-period build
previous_state(mm, c, name, a, cyclic, per_period) ==
    LET pp == n.multi_invest /\ per_period
        include == IF pp THEN include_previous_pp(c, a, cyclic)
                   ELSE include_previous(c, a, cyclic)
        rolled == IF pp THEN rolled_state_pp(mm, name, a)
                  ELSE rolled_state(mm, c, name, a)
    IN [label |-> [t \in sns |-> IF include[t] THEN rolled[t] ELSE 0],
        include |-> include]

define_storage_unit_constraints(mm) ==
    LET c == "StorageUnit"
        active == get_activity_mask(c, sns, Index(c))
        soc == c \o "-state_of_charge"
        eff_stand(a) == 1 - df(c)[a].standing_loss
        prev(a) == previous_state(mm, c, soc, a,
                      df(c)[a].cyclic_state_of_charge,
                      df(c)[a].cyclic_state_of_charge_per_period
                         \/ df(c)[a].state_of_charge_initial_per_period)
        previous_soc(t, a) ==
            IF prev(a).label[t] = 0 THEN {}
            ELSE Term(mm, eff_stand(a), soc, prev(a).label[t], a)
        spill(t, a) ==
            IF HasVar(mm, c \o "-spill")
            THEN Term(mm, 0 - 1, c \o "-spill", t, a) ELSE {}
        rhs(t, a) ==
            IF prev(a).include[t] THEN 0 - df(c)[a].inflow
            ELSE 0 - df(c)[a].inflow - df(c)[a].state_of_charge_initial
        name == c \o "-energy_balance"
    IN IF Index(c) = {} THEN mm
       ELSE add_constraints(mm, name,
              {Row(name, cell[1], cell[2],
                   merge(<<Term(mm, 0 - 1, soc, cell[1], cell[2]),
                           Term(mm, 0 - 1, c \o "-p_dispatch", cell[1], cell[2]),
                           Term(mm, 1, c \o "-p_store", cell[1], cell[2]),
                           spill(cell[1], cell[2]),
                           previous_soc(cell[1], cell[2])>>),
                   "=", rhs(cell[1], cell[2])) : cell \in active})

define_store_constraints(mm) ==
    LET c == "Store"
        active == get_activity_mask(c, sns, Index(c))
        e == c \o "-e"
        eff_stand(a) == 1 - df(c)[a].standing_loss
        prev(a) == previous_state(mm, c, e, a, df(c)[a].e_cyclic,
                      df(c)[a].e_cyclic_per_period
                         \/ df(c)[a].e_initial_per_period)
        previous_e(t, a) ==
            IF prev(a).label[t] = 0 THEN {}
            ELSE Term(mm, eff_stand(a), e, prev(a).label[t], a)
        rhs(t, a) ==
            IF prev(a).include[t] THEN 0 ELSE 0 - df(c)[a].e_initial
        name == c \o "-energy_balance"
    IN IF Index(c) = {} THEN mm
       ELSE add_constraints(mm, name,
              {Row(name, cell[1], cell[2],
                   merge(<<Term(mm, 0 - 1, e, cell[1], cell[2]),
                           Term(mm, 0 - 1, c \o "-p", cell[1], cell[2]),
                           previous_e(cell[1], cell[2])>>),
                   "=", rhs(cell[1], cell[2])) : cell \in active})

(***************************************************************************)
(* Model assembly: the order in which create_model calls the routines,     *)
(* variables before constraints, once per component and attribute.         *)
(***************************************************************************)
NominalLookup ==
    << <<"Generator", "p_nom">>, <<"Line", "s_nom">>, <<"Link", "p_nom">>,
       <<"StorageUnit", "p_nom">>, <<"Store", "e_nom">> >>
OperationalLookup ==
    << <<"Generator", "p">>, <<"Line", "s">>, <<"Link", "p">>,
       <<"StorageUnit", "p_dispatch">>, <<"StorageUnit", "p_store">>,
       <<"StorageUnit", "state_of_charge">>, <<"Store", "e">> >>
PassiveLookup == << <<"Line", "s">> >>

Step(op, ca) == [op |-> op, c |-> ca[1], attr |-> ca[2]]

RECURSIVE Flatten(_)
Flatten(ss) == IF ss = << >> THEN << >> ELSE Head(ss) \o Flatten(Tail(ss))

\* for each pair of `lookup` the routines `ops`, in this order
ForEach(lookup, ops) ==
    Flatten([i \in 1..Len(lookup) |->
                [j \in 1..Len(ops) |-> Step(ops[j], lookup[i])]])

Steps ==
    ForEach(NominalLookup,
            <<"define_nominal_variables", "define_modular_variables">>)
    \o ForEach(OperationalLookup,
            <<"define_operational_variables",
              "define_committability_variables">>)
    \o << Step("define_spillage_variables", <<"StorageUnit", "spill">>),
          Step("define_operational_variables", <<"Store", "p">>) >>
    \o ForEach(PassiveLookup, <<"define_loss_variables">>)
    \o ForEach(NominalLookup,
            <<"define_nominal_constraints_for_extendables",
              "define_fixed_nominal_constraints",
              "define_modular_constraints",
              "define_committability_variables_constraints_with_fixed_upper_limit",
              "define_committability_variables_constraints_with_variable_upper_limit">>)
    \o ForEach(OperationalLookup,
            <<"define_operational_constraints_for_non_extendables_and_non_committables",
              "define_operational_constraints_for_extendables_but_non_committables",
              "define_operational_constraints_for_committables_and_modular",
              "define_operational_constraints_for_committables_non_modular_non_extendables",
              "define_ramp_limit_constraints",
              "define_fixed_operation_constraints">>)
    \o << Step("define_kirchhoff_voltage_constraints", <<"Line", "s">>),
          Step("define_nodal_balance_constraints", <<"Bus", "p">>),
          Step("define_storage_unit_constraints",
               <<"StorageUnit", "state_of_charge">>),
          Step("define_store_constraints", <<"Store", "e">>) >>
    \o ForEach(PassiveLookup, <<"define_loss_constraints">>)

At(op) == pc = "build" /\ Steps[k].op = op
Advance ==
    IF k = Len(Steps) THEN pc' = "built" /\ k' = 0
    ELSE pc' = "build" /\ k' = k + 1
Frame == UNCHANGED <<n, err, sol, builds, n_built, m_prev, m_start, calls, n_prev, log>>
\* logger.warning(w) if cond: the build goes on
Warn(cond, w) ==
    /\ log' = IF cond THEN log \cup {w} ELSE log
    /\ UNCHANGED <<n, err, sol, builds, n_built, m_prev, m_start, calls, n_prev>>
\* a routine raises: the build stops and the model stays as it is
Raise(msg) ==
    /\ m' = m /\ pc' = "error" /\ k' = 0 /\ err' = msg
    /\ UNCHANGED <<n, sol, builds, n_built, m_prev, m_start, calls, n_prev, log>>

\* create_model: the model is created once per build and the one of the
\* build before is discarded; the define_* routines of the source work on
\* n.model whatever it holds, so the build runs as well on the model the
\* build before left (re-running the full build)
CreateModel ==
    /\ pc = "idle"
    /\ \E start \in {EmptyModel, m} : m' = start /\ m_start' = start
    /\ pc' = "build" /\ k' = 1
    /\ builds' = builds + 1
    /\ n_built' = n /\ m_prev' = m /\ n_prev' = n_built
    /\ log' = {}
    /\ UNCHANGED <<n, err, sol, calls>>

DefineNominalVariables ==
    /\ At("define_nominal_variables")
    /\ m' = define_nominal_variables(m, Steps[k].c, Steps[k].attr)
    /\ Advance /\ Frame

DefineModularVariables ==
    /\ At("define_modular_variables")
    /\ m' = define_modular_variables(m, Steps[k].c, Steps[k].attr)
    /\ Advance /\ Frame

DefineOperationalVariables ==
    /\ At("define_operational_variables")
    /\ m' = define_operational_variables(m, Steps[k].c, Steps[k].attr)
    /\ Advance /\ Frame

DefineCommittabilityVariables ==
    /\ At("define_committability_variables")
    /\ m' = define_committability_variables(m, Steps[k].c)
    /\ Advance /\ Frame

\* create_model declares the loss variables only `if transmission_losses`
DefineLossVariables ==
    /\ At("define_loss_variables")
    /\ m' = IF n.transmission_losses > 0
            THEN define_loss_variables(m, Steps[k].c) ELSE m
    /\ Advance /\ Frame

DefineNominalConstraintsForExtendables ==
    /\ At("define_nominal_constraints_for_extendables")
    /\ m' = define_nominal_constraints_for_extendables(m, Steps[k].c,
                                                       Steps[k].attr)
    /\ Advance /\ Frame

DefineFixedNominalConstraints ==
    /\ At("define_fixed_nominal_constraints")
    /\ IF fixed_nominal_raises(m, Steps[k].c, Steps[k].attr)
       THEN Raise("KeyError")
       ELSE /\ m' = define_fixed_nominal_constraints(m, Steps[k].c,
                                                     Steps[k].attr)
            /\ Advance /\ Frame

DefineModularConstraints ==
    /\ At("define_modular_constraints")
    /\ m' = define_modular_constraints(m, Steps[k].c, Steps[k].attr)
    /\ Advance /\ Frame

DefineOperationalConstraintsFixNonComm ==
    /\ At("define_operational_constraints_for_non_extendables_and_non_committables")
    /\ m' = define_operational_constraints_for_non_extendables_and_non_committables(
                m, Steps[k].c, Steps[k].attr)
    /\ Advance /\ Frame

DefineOperationalConstraintsExtNonComm ==
    /\ At("define_operational_constraints_for_extendables_but_non_committables")
    /\ m' = define_operational_constraints_for_extendables_but_non_committables(
                m, Steps[k].c, Steps[k].attr)
    /\ Advance /\ Frame

DefineSpillageVariables ==
    /\ At("define_spillage_variables")
    /\ m' = define_spillage_variables(m)
    /\ Advance /\ Frame

DefineFixedUpperLimit ==
    /\ At("define_committability_variables_constraints_with_fixed_upper_limit")
    /\ IF fixed_upper_limit_raises(Steps[k].c, Steps[k].attr)
       THEN Raise("ValueError")
       ELSE /\ m' = define_committability_variables_constraints_with_fixed_upper_limit(
                       m, Steps[k].c, Steps[k].attr)
            /\ Advance /\ Frame

DefineVariableUpperLimit ==
    /\ At("define_committability_variables_constraints_with_variable_upper_limit")
    /\ m' = define_committability_variables_constraints_with_variable_upper_limit(
                m, Steps[k].c, Steps[k].attr)
    /\ Advance /\ Frame

DefineOperationalConstraintsComMod ==
    /\ At("define_operational_constraints_for_committables_and_modular")
    /\ m' = define_operational_constraints_for_committables_and_modular(
                m, Steps[k].c)
    /\ Advance
    /\ Warn(committable_warns(Steps[k].c,
                              get_committable_i(Steps[k].c)
                                 \cap mod_i_of(Steps[k].c)),
            not_tightened)

DefineOperationalConstraintsComNonModFix ==
    /\ At("define_operational_constraints_for_committables_non_modular_non_extendables")
    /\ m' = define_operational_constraints_for_committables_non_modular_non_extendables(
                m, Steps[k].c)
    /\ Advance
    /\ Warn(committable_warns(Steps[k].c,
                              (get_committable_i(Steps[k].c)
                                  \cap not_mod_i_of(Steps[k].c))
                                 \cap get_non_extendable_i(Steps[k].c)),
            not_tightened)

DefineRampLimitConstraints ==
    /\ At("define_ramp_limit_constraints")
    /\ m' = define_ramp_limit_constraints(m, Steps[k].c, Steps[k].attr)
    /\ Advance /\ Frame

DefineFixedOperationConstraints ==
    /\ At("define_fixed_operation_constraints")
    /\ IF fixed_operation_raises(m, Steps[k].c, Steps[k].attr)
       THEN Raise("KeyError")
       ELSE /\ m' = define_fixed_operation_constraints(m, Steps[k].c,
                                                       Steps[k].attr)
            /\ Advance /\ Frame

\* the dependent values are calculated in the network first, also when
\* the routine returns early
DefineKirchhoffVoltageConstraints ==
    /\ At("define_kirchhoff_voltage_constraints")
    /\ n' = calculate_dependent_values(n)
    /\ m' = define_kirchhoff_voltage_constraints(m)
    /\ Advance
    /\ UNCHANGED <<err, sol, builds, n_built, m_prev, m_start, calls, n_prev, log>>

DefineNodalBalanceConstraints ==
    /\ At("define_nodal_balance_constraints")
    /\ IF nodal_balance_raises(m)
       THEN Raise("ValueError")
       ELSE /\ m' = define_nodal_balance_constraints(m)
            /\ Advance /\ Frame

DefineStorageUnitConstraints ==
    /\ At("define_storage_unit_constraints")
    /\ m' = define_storage_unit_constraints(m)
    /\ Advance /\ Frame

DefineStoreConstraints ==
    /\ At("define_store_constraints")
    /\ m' = define_store_constraints(m)
    /\ Advance /\ Frame

\* create_model emits the loss constraints only `if transmission_losses`
DefineLossConstraints ==
    /\ At("define_loss_constraints")
    /\ IF n.transmission_losses > 0 /\ loss_constraints_raise(Steps[k].c)
       THEN Raise("ValueError")
       ELSE /\ m' = IF n.transmission_losses > 0
                    THEN define_loss_constraints(m, Steps[k].c,
                                                 n.transmission_losses)
                    ELSE m
            /\ Advance /\ Frame

(***************************************************************************)
(* The external solver: any point of the grid n.vals that respects the     *)
(* bounds of every labelled variable and satisfies every emitted row.  The *)
(* static variables are fixed first, then one snapshot at a time; a row is *)
(* checked as soon as the last of its variables has a value.               *)
(***************************************************************************)
VarsAt(mm, t) == {v \in AllLabels(mm) : v.sn = t}
InBounds(mm, v, x) ==
    /\ Var(mm, v.v).lower <= x
    /\ x <= Var(mm, v.v).upper[<<v.sn, v.i>>]
Value(r, s) == SumSet(r.terms, [tm \in r.terms |-> tm.coef * s[tm.var]])
Sat(r, s) ==
    CASE r.sense = ">=" -> Value(r, s) >= r.rhs
      [] r.sense = "<=" -> Value(r, s) <= r.rhs
      [] r.sense = "=" -> Value(r, s) = r.rhs
Latest(r) == Max({r.sn} \cup {v.sn : v \in RowVars(r)})
Feasible(mm, s, t) ==
    /\ \A v \in VarsAt(mm, t) : InBounds(mm, v, s[v])
    /\ \A r \in mm.constraints : r.terms # {} /\ Latest(r) = t => Sat(r, s)

SolveStatic ==
    /\ pc = "built"
    /\ \E f \in [VarsAt(m, 0) -> n.vals] :
          /\ Feasible(m, f, 0)
          /\ sol' = f
    /\ pc' = "solve" /\ k' = n.sns0
    /\ UNCHANGED <<n, m, err, builds, n_built, m_prev, m_start, calls, n_prev, log>>

SolveSnapshot ==
    /\ pc = "solve"
    /\ \E f \in [VarsAt(m, k) -> n.vals] :
          /\ Feasible(m, f @@ sol, k)
          /\ sol' = f @@ sol
    /\ IF k = n.T THEN pc' = "solved" /\ k' = 0
       ELSE pc' = "solve" /\ k' = k + 1
    /\ UNCHANGED <<n, m, err, builds, n_built, m_prev, m_start, calls, n_prev, log>>

\* define_objective: the operating cost of a point, every snapshot
\* weighted by one
objective(mm, s) ==
    LET cells == {v \in AllLabels(mm) : v.v = "Generator-p"}
    IN SumSet(cells, [v \in cells |->
                        df("Generator")[v.i].marginal_cost * s[v]])

(***************************************************************************)
(* Networks.                                                               *)
(***************************************************************************)
Components ==
    {"Generator", "Line", "Link", "StorageUnit", "Store", "Load", "Bus"}

GeneratorDefaults ==
    [bus |-> "bus", sign |-> 1, p_nom |-> 0, p_nom_extendable |-> FALSE,
     p_nom_mod |-> 0, p_nom_min |-> 0, p_nom_max |-> Inf, p_min_pu |-> 0,
     p_max_pu |-> 1, committable |-> FALSE, marginal_cost |-> 0,
     start_up_cost |-> 0, shut_down_cost |-> 0, min_up_time |-> 0,
     min_down_time |-> 0, up_time_before |-> 1, down_time_before |-> 0,
     ramp_limit_up |-> NaN, ramp_limit_down |-> NaN,
     ramp_limit_start_up |-> 1, ramp_limit_shut_down |-> 1,
     build_year |-> 0, lifetime |-> Inf]

LineDefaults ==
    [bus0 |-> "bus", bus1 |-> "bus1", s_nom |-> 0, s_nom_extendable |-> FALSE,
     s_nom_mod |-> 0, s_nom_min |-> 0, s_nom_max |-> Inf, s_max_pu |-> 1,
     x |-> 1, r |-> 0, v_nom |-> 0, x_pu |-> 0, r_pu |-> 0, x_pu_eff |-> 0,
     r_pu_eff |-> 0, build_year |-> 0, lifetime |-> Inf]

StorageUnitDefaults ==
    [bus |-> "bus", sign |-> 1, p_nom |-> 0, p_nom_extendable |-> FALSE,
     p_nom_mod |-> 0, p_nom_min |-> 0, p_nom_max |-> Inf, p_min_pu |-> 0 - 1,
     p_max_pu |-> 1, max_hours |-> 1, inflow |-> 0, standing_loss |-> 0,
     cyclic_state_of_charge |-> FALSE,
     cyclic_state_of_charge_per_period |-> TRUE,
     state_of_charge_initial |-> 0,
     state_of_charge_initial_per_period |-> FALSE,
     build_year |-> 0, lifetime |-> Inf]

StoreDefaults ==
    [bus |-> "bus", sign |-> 1, e_nom |-> 0, e_nom_extendable |-> FALSE,
     e_nom_mod |-> 0, e_nom_min |-> 0, e_nom_max |-> Inf, e_min_pu |-> 0,
     e_max_pu |-> 1, e_cyclic |-> FALSE, e_cyclic_per_period |-> TRUE,
     e_initial |-> 0, e_initial_per_period |-> FALSE, standing_loss |-> 0,
     build_year |-> 0, lifetime |-> Inf]

LinkDefaults ==
    [bus0 |-> "bus", bus1 |-> "bus1", bus2 |-> "", efficiency |-> 1,
     efficiency2 |-> 1, p_nom |-> 0, p_nom_extendable |-> FALSE,
     p_nom_mod |-> 0, p_nom_min |-> 0, p_nom_max |-> Inf, p_min_pu |-> 0,
     p_max_pu |-> 1, build_year |-> 0, lifetime |-> Inf]

LoadDefaults == [bus |-> "bus", p_set |-> 0, sign |-> 0 - 1]
BusDefaults == [v_nom |-> 1, carrier |-> "AC"]

EmptyNetwork ==
    [T |-> NSns, sns0 |-> 1, multi_invest |-> FALSE, linearized_uc |-> FALSE,
     transmission_losses |-> 0, period |-> [t \in 1..NSns |-> 1],
     df |-> [c \in Components |-> << >>], vals |-> (0 - 1)..MaxVal,
     pnl_p |-> << >>, pnl_status |-> << >>, pnl_set |-> << >>]

Start(net) ==
    /\ n = net
    /\ m = EmptyModel
    /\ pc = "idle" /\ k = 0 /\ err = "" /\ sol = << >>
    /\ builds = 0 /\ n_built = net /\ m_prev = EmptyModel /\ n_prev = net
    /\ m_start = EmptyModel
    /\ log = {} /\ calls = 0

\* the network with these tables and one bus "bus"
OneBus(gens, loads) ==
    [EmptyNetwork EXCEPT !.df["Generator"] = gens, !.df["Load"] = loads,
                         !.df["Bus"] = ("bus" :> BusDefaults)]

\* capacity expansion: one generator, or two of which the second is fixed
InitCapacity ==
    \E ext \in BOOLEAN, mod \in 0..MaxVal, lo \in {0 - 1, 0, 1},
       hi \in {1, Inf}, max_pu \in {0, 1}, two \in BOOLEAN,
       p_set \in {0, 1} :
        LET g1 == [GeneratorDefaults EXCEPT
                     !.p_nom = 1, !.p_nom_extendable = ext, !.p_nom_mod = mod,
                     !.p_nom_min = lo, !.p_nom_max = hi, !.p_max_pu = max_pu]
            g2 == [GeneratorDefaults EXCEPT !.p_nom = 1, !.p_min_pu = 1,
                     !.p_nom_mod = MaxVal - mod]
            gens == IF two THEN ("g1" :> g1) @@ ("g2" :> g2) ELSE ("g1" :> g1)
            loads == "load" :> [LoadDefaults EXCEPT !.p_set = p_set]
        IN Start(OneBus(gens, loads))

\* the grid of the dispatch studies: multiples of 5 from -5 to 5 * MaxVal + 10
Grid5 == {5 * x : x \in (0 - 1)..(MaxVal + 2)}

\* nodal balance: a load and a fixed generator on one bus, and possibly an
\* extra bus without any component but, possibly, a load of its own
InitNodal ==
    \E T \in 1..NSns, p_set \in {0, 5, 10}, p_nom \in {5, 10, 15},
       marginal_cost \in {5, 10}, extra \in {"none", "bus", "load0", "load5"} :
        LET gens == "gen" :> [GeneratorDefaults EXCEPT
                                !.p_nom = p_nom, !.marginal_cost = marginal_cost]
            load == "load" :> [LoadDefaults EXCEPT !.p_set = p_set]
            load2 == "load2" :> [LoadDefaults EXCEPT
                                   !.bus = "extrabus",
                                   !.p_set = IF extra = "load5" THEN 5 ELSE 0]
            loads == IF extra \in {"load0", "load5"} THEN load @@ load2
                     ELSE load
            buses == IF extra = "none" THEN ("bus" :> BusDefaults)
                     ELSE ("bus" :> BusDefaults) @@ ("extrabus" :> BusDefaults)
        IN Start([OneBus(gens, loads) EXCEPT
                    !.T = T, !.df["Bus"] = buses, !.vals = Grid5])

\* dispatch bounds: a fixed generator feeds a load over a fixed line, with
\* or without the loss approximation
InitDispatch ==
    \E p_nom \in 1..MaxVal, p_min_pu \in {0, 1}, s_nom \in 1..(MaxVal + 1),
       s_max_pu \in {0, 1}, losses \in {0, 1}, r \in {0, 1}, p_set \in {0, 1},
       back \in BOOLEAN :
        LET gens == "gen" :> [GeneratorDefaults EXCEPT
                                !.p_nom = p_nom, !.p_min_pu = p_min_pu]
            lines == "line" :> [LineDefaults EXCEPT
                                  !.bus0 = IF back THEN "bus1" ELSE "bus",
                                  !.bus1 = IF back THEN "bus" ELSE "bus1",
                                  !.s_nom = s_nom, !.s_max_pu = s_max_pu,
                                  !.r = r]
            loads == "load" :> [LoadDefaults EXCEPT
                                  !.bus = "bus1", !.p_set = p_set]
            buses == ("bus" :> BusDefaults) @@ ("bus1" :> BusDefaults)
        IN Start([OneBus(gens, loads) EXCEPT
                    !.df["Line"] = lines, !.df["Bus"] = buses,
                    !.transmission_losses = losses,
                    !.vals = (0 - MaxVal)..(MaxVal + 1)])

\* unit commitment: one committable generator feeds the load of its bus
InitUC ==
    \E ext \in BOOLEAN, mod \in 0..MaxVal, p_nom \in 1..MaxVal,
       min_up_time \in {0, MaxVal}, min_down_time \in {0, 1},
       up_time_before \in {0, 1},
       uc \in {"integer", "relaxed", "relaxed-costs"}, p_set \in {0, 1} :
        LET gens == "gen" :> [GeneratorDefaults EXCEPT
                                !.committable = TRUE,
                                !.p_nom = p_nom, !.p_nom_extendable = ext,
                                !.p_nom_mod = mod, !.p_nom_max = MaxVal,
                                !.min_up_time = min_up_time,
                                !.min_down_time = min_down_time,
                                !.up_time_before = up_time_before,
                                !.down_time_before = 1 - up_time_before,
                                !.start_up_cost =
                                    IF uc = "relaxed-costs" THEN 1 ELSE 0]
            loads == "load" :> [LoadDefaults EXCEPT !.p_set = p_set]
        IN Start([OneBus(gens, loads) EXCEPT
                    !.linearized_uc = (uc # "integer"),
                    !.vals = 0..MaxVal])

\* investment periods 1 and 2: the snapshots up to `split` are of period 1
Periods(T, split) == [t \in 1..T |-> IF t <= split THEN 1 ELSE 2]

\* multi-period: a generator, a line, a storage unit and a store that are
\* active in period 1 only, in period 2 only or in both; without
\* investment periods every asset is active at every snapshot
InitPeriods ==
    \E multi \in BOOLEAN, split \in 1..(MaxSns - 1),
       years \in {<<1, 1>>, <<1, Inf>>, <<2, Inf>>},
       kind \in {"fix", "ext", "com", "com-mod", "com-ext"},
       losses \in {0, 1}, inflow \in {0, 1}, cyclic \in BOOLEAN,
       per_period \in BOOLEAN :
        LET by == IF multi THEN years[1] ELSE 0
            lt == IF multi THEN years[2] ELSE Inf
            gens == "gen" :> [GeneratorDefaults EXCEPT
                                !.p_nom = 1,
                                !.committable = (kind \in {"com", "com-mod",
                                                           "com-ext"}),
                                !.p_nom_extendable = (kind \in {"ext", "com-ext"}),
                                !.p_nom_mod = IF kind = "com-mod" THEN 1 ELSE 0,
                                !.min_up_time = 1, !.min_down_time = 1,
                                !.ramp_limit_up = 0,
                                !.build_year = by, !.lifetime = lt]
            lines == "line" :> [LineDefaults EXCEPT
                                  !.s_nom = 1, !.r = 1,
                                  !.build_year = by, !.lifetime = lt]
            units == "su" :> [StorageUnitDefaults EXCEPT
                                !.p_nom = 1, !.inflow = inflow,
                                !.cyclic_state_of_charge = cyclic,
                                !.cyclic_state_of_charge_per_period = per_period,
                                !.build_year = by, !.lifetime = lt]
            stores == "st" :> [StoreDefaults EXCEPT
                                 !.e_nom = 1, !.e_cyclic = cyclic,
                                 !.e_cyclic_per_period = per_period,
                                 !.build_year = by, !.lifetime = lt]
            buses == ("bus" :> BusDefaults) @@ ("bus1" :> BusDefaults)
        IN /\ multi \/ (split = 1 /\ years = <<1, Inf>>)
           /\ Start([EmptyNetwork EXCEPT
                       !.T = MaxSns, !.multi_invest = multi,
                       !.period = Periods(MaxSns, IF multi THEN split ELSE MaxSns),
                       !.transmission_losses = losses,
                       !.df["Generator"] = gens, !.df["Line"] = lines,
                       !.df["StorageUnit"] = units, !.df["Store"] = stores,
                       !.df["Bus"] = buses])

\* the generators a second call of n.add can bring
AddedGenerators ==
    {[GeneratorDefaults EXCEPT !.p_nom = 5, !.marginal_cost = 5],
     [GeneratorDefaults EXCEPT !.p_nom = 5, !.p_nom_extendable = TRUE],
     [GeneratorDefaults EXCEPT !.p_nom = 5, !.committable = TRUE]}

\* n.add("Generator", "generator2", ...) after a build
AddGenerator ==
    /\ pc = "built" /\ builds < MaxBuilds
    /\ "generator2" \notin Index("Generator")
    /\ \E g \in AddedGenerators :
          n' = [n EXCEPT !.df["Generator"] = @ @@ ("generator2" :> g)]
    /\ pc' = "idle"
    /\ UNCHANGED <<m, k, err, sol, builds, n_built, m_prev, m_start, calls, n_prev, log>>

\* n.optimize() once more on the unchanged network
OptimizeAgain ==
    /\ pc = "built" /\ builds < MaxBuilds
    /\ pc' = "idle"
    /\ UNCHANGED <<n, m, k, err, sol, builds, n_built, m_prev, m_start, calls, n_prev, log>>

\* rebuild: the network of the nodal balance example, built several times
InitRebuild ==
    \E T \in 1..NSns, p_nom \in {10, 15}, ext \in BOOLEAN :
        LET gens == "generator1" :> [GeneratorDefaults EXCEPT
                                       !.p_nom = p_nom, !.marginal_cost = 10,
                                       !.p_nom_extendable = ext]
            loads == "load" :> [LoadDefaults EXCEPT !.p_set = 10]
        IN Start([OneBus(gens, loads) EXCEPT !.T = T, !.vals = Grid5])

NextBuild ==
    \/ CreateModel
    \/ DefineNominalVariables
    \/ DefineModularVariables
    \/ DefineOperationalVariables
    \/ DefineCommittabilityVariables
    \/ DefineLossVariables
    \/ DefineNominalConstraintsForExtendables
    \/ DefineFixedNominalConstraints
    \/ DefineModularConstraints
    \/ DefineOperationalConstraintsFixNonComm
    \/ DefineOperationalConstraintsExtNonComm
    \/ DefineSpillageVariables
    \/ DefineFixedUpperLimit
    \/ DefineVariableUpperLimit
    \/ DefineOperationalConstraintsComMod
    \/ DefineOperationalConstraintsComNonModFix
    \/ DefineRampLimitConstraints
    \/ DefineFixedOperationConstraints
    \/ DefineKirchhoffVoltageConstraints
    \/ DefineNodalBalanceConstraints
    \/ DefineStorageUnitConstraints
    \/ DefineStoreConstraints
    \/ DefineLossConstraints

Next == NextBuild \/ SolveStatic \/ SolveSnapshot

SpecCapacity == InitCapacity /\ [][Next]_vars
SpecNodal == InitNodal /\ [][Next]_vars
SpecDispatch == InitDispatch /\ [][Next]_vars
SpecUC == InitUC /\ [][Next]_vars
SpecPeriods == InitPeriods /\ [][NextBuild]_vars

NextRebuild == NextBuild \/ AddGenerator \/ OptimizeAgain
SpecRebuild == InitRebuild /\ [][NextRebuild]_vars

(***************************************************************************)
(* Claims.                                                                 *)
(***************************************************************************)
Built == pc \in {"built", "solve", "solved"}
StaticSolved == pc \in {"solve", "solved"}
Solved == pc = "solved"
NominalComponents == {"Generator", "Line", "StorageUnit", "Store"}
NominalName(c) == IF c = "Line" THEN "s_nom" ELSE IF c = "Store" THEN "e_nom" ELSE "p_nom"
VarRef(name, t, a) == [v |-> name, sn |-> t, i |-> a]

\* the assets of c that are extendable and have a module size > 0
ExtendableModular(c) ==
    {a \in DOMAIN n.df[c] :
        /\ n.df[c][a][NominalName(c) \o "_extendable"]
        /\ n.df[c][a][NominalName(c) \o "_mod"] > 0}
Extendable(c) ==
    {a \in DOMAIN n.df[c] : n.df[c][a][NominalName(c) \o "_extendable"]}

\* C4: the module count is a non-negative integer variable declared for
\* exactly the extendable assets with module size > 0, the modularity
\* equality is emitted for exactly these assets, and in every solution
\* their nominal capacity equals module_count * module_size.
C4_ModularCapacity ==
    \A c \in NominalComponents :
        LET nom == c \o "-" \o NominalName(c)
            cnt == c \o "-n_mod"
            rows == {r \in m.constraints : r.name = nom \o "_modularity"}
        IN /\ Built =>
                /\ HasVar(m, cnt) <=> ExtendableModular(c) # {}
                /\ \A d \in m.variables : d.name = cnt =>
                      /\ d.labels = {0} \X ExtendableModular(c)
                      /\ d.coords = d.labels
                      /\ d.integer /\ d.lower = 0
                /\ {r.i : r \in rows} = ExtendableModular(c)
                /\ \A r \in rows : r.sense = "="
           /\ StaticSolved =>
                \A a \in ExtendableModular(c) :
                    /\ sol[VarRef(cnt, 0, a)] >= 0
                    /\ sol[VarRef(nom, 0, a)] =
                         sol[VarRef(cnt, 0, a)]
                            * n.df[c][a][NominalName(c) \o "_mod"]

\* a solved build with a generator of module size 2: one module, capacity 2
C4_Witness ==
    /\ Solved
    /\ \E a \in ExtendableModular("Generator") :
          /\ n.df["Generator"][a].p_nom_mod = 2
          /\ sol[VarRef("Generator-n_mod", 0, a)] = 1
          /\ sol[VarRef("Generator-p_nom", 0, a)] = 2
    /\ \E a \in DOMAIN n.df["Generator"] : a \notin ExtendableModular("Generator")

\* C10 as stated: no solution has a negative nominal capacity, whatever
\* the configured minimum capacity is.
C10_NonNegative ==
    StaticSolved =>
        \A c \in NominalComponents : \A a \in Extendable(c) :
            sol[VarRef(c \o "-" \o NominalName(c), 0, a)] >= 0

\* C10 amended: the nominal-capacity variable is declared for exactly the
\* extendable assets, continuous and without bounds of its own; in every
\* solution the capacity is at least the configured minimum attr_min, so
\* it is non-negative whenever attr_min >= 0.
C10_AtLeastMinimum ==
    \A c \in NominalComponents :
        LET nom == c \o "-" \o NominalName(c)
        IN /\ Built =>
                /\ HasVar(m, nom) <=> Extendable(c) # {}
                /\ \A d \in m.variables : d.name = nom =>
                      /\ d.labels = {0} \X Extendable(c)
                      /\ d.coords = d.labels
                      /\ ~d.integer
                      /\ d.lower = NegInf
                      /\ \A cell \in d.coords : d.upper[cell] = Inf
           /\ StaticSolved =>
                \A a \in Extendable(c) :
                    LET attr_min == n.df[c][a][NominalName(c) \o "_min"]
                    IN /\ sol[VarRef(nom, 0, a)] >= attr_min
                       /\ attr_min >= 0 => sol[VarRef(nom, 0, a)] >= 0

\* a solution whose capacity sits on a negative configured minimum
C10_Witness ==
    /\ Solved
    /\ \E a \in Extendable("Generator") :
          /\ n.df["Generator"][a].p_nom_min < 0
          /\ sol[VarRef("Generator-p_nom", 0, a)] = n.df["Generator"][a].p_nom_min

\* the network is the one of the nodal balance example: one bus, one load,
\* one fixed non-committable generator that can cover the load
OneBusOneLoadOneGenerator ==
    /\ DOMAIN n.df["Bus"] = {"bus"}
    /\ DOMAIN n.df["Load"] = {"load"}
    /\ DOMAIN n.df["Generator"] = {"gen"}
    /\ ~n.df["Generator"]["gen"].p_nom_extendable
    /\ ~n.df["Generator"]["gen"].committable
    /\ n.df["Generator"]["gen"].p_nom >= n.df["Load"]["load"].p_set

\* C2: in a one-bus network with one load and one fixed non-committable
\* generator with p_nom >= p_set, the built model leaves exactly one
\* dispatch per snapshot, the load's p_set, every solution has this
\* dispatch, and its objective is marginal_cost * p_set per snapshot (100
\* for p_set = 10, p_nom = 15, marginal_cost = 10 and one snapshot).
C2_UniqueDispatch ==
    OneBusOneLoadOneGenerator =>
        LET p_set == n.df["Load"]["load"].p_set
            cost == n.df["Generator"]["gen"].marginal_cost
        IN /\ pc = "built" =>
                \A t \in 1..n.T :
                    {x \in n.vals :
                        \A r \in m.constraints : r.sn = t =>
                            LET lhs == SumSet(r.terms,
                                         [tm \in r.terms |-> tm.coef * x])
                            IN CASE r.sense = "=" -> lhs = r.rhs
                                 [] r.sense = "<=" -> lhs <= r.rhs
                                 [] r.sense = ">=" -> lhs >= r.rhs}
                      = {p_set}
           /\ Solved =>
                /\ \A t \in 1..n.T : sol[VarRef("Generator-p", t, "gen")] = p_set
                /\ SumSet(1..n.T, [t \in 1..n.T |->
                       cost * sol[VarRef("Generator-p", t, "gen")]])
                     = cost * p_set * n.T
                /\ objective(m, sol) = cost * p_set * n.T

\* the example of the claim, solved: dispatch 10 and objective 100
C2_Witness ==
    /\ Solved /\ OneBusOneLoadOneGenerator /\ n.T = 1
    /\ n.df["Load"]["load"].p_set = 10
    /\ n.df["Generator"]["gen"].p_nom = 15
    /\ n.df["Generator"]["gen"].marginal_cost = 10
    /\ sol[VarRef("Generator-p", 1, "gen")] = 10
    /\ objective(m, sol) = 100

\* the assets of any component that are attached to bus b
Attached(b) ==
    {a \in DOMAIN n.df["Generator"] : n.df["Generator"][a].bus = b}
    \cup {a \in DOMAIN n.df["StorageUnit"] : n.df["StorageUnit"][a].bus = b}
    \cup {a \in DOMAIN n.df["Store"] : n.df["Store"][a].bus = b}
    \cup {a \in DOMAIN n.df["Line"] :
             n.df["Line"][a].bus0 = b \/ n.df["Line"][a].bus1 = b}
    \cup {a \in DOMAIN n.df["Link"] :
             \/ n.df["Link"][a].bus0 = b \/ n.df["Link"][a].bus1 = b
             \/ n.df["Link"][a].bus2 = b}
\* the net load of bus b: the demand p_set of its loads
NetLoad(b) ==
    LET loads == {l \in DOMAIN n.df["Load"] : n.df["Load"][l].bus = b}
    IN SumSet(loads, [l \in loads |->
                        0 - n.df["Load"][l].p_set * n.df["Load"][l].sign])
BalanceRows == {r \in m.constraints : r.name = "Bus-nodal_balance"}
\* the nodal balance routine has been passed
BalanceDone ==
    \/ Built
    \/ pc = "build" /\ Steps[k].op \in
          {"define_storage_unit_constraints", "define_store_constraints",
           "define_loss_constraints"}

\* C3: a bus without any attached component has an empty balance.  If its
\* net load is nonzero the build stops with ValueError and the model has no
\* nodal balance row; otherwise the build goes on, no row is emitted for
\* this bus and one equality row is emitted for every other bus and
\* snapshot.
C3_EmptyBalance ==
    LET buses == DOMAIN n.df["Bus"]
        empty == {b \in buses : Attached(b) = {}}
    IN /\ pc = "error" =>
            /\ err = "ValueError"
            /\ \E b \in empty : NetLoad(b) # 0
            /\ BalanceRows = {}
       /\ BalanceDone =>
            /\ \A b \in empty : NetLoad(b) = 0
            /\ \A b \in empty : \A r \in BalanceRows : r.i # b
            /\ \A b \in buses \ empty : \A t \in 1..n.T :
                  \E r \in BalanceRows :
                     /\ r.i = b /\ r.sn = t /\ r.sense = "="
                     /\ r.rhs = NetLoad(b) /\ r.terms # {}
                     /\ \A o \in BalanceRows : o.i = b /\ o.sn = t => o = r

\* the build of a network whose extra bus carries a load of 5 has stopped
C3_Witness ==
    /\ pc = "error" /\ err = "ValueError"
    /\ "extrabus" \in DOMAIN n.df["Bus"] /\ Attached("extrabus") = {}
    /\ NetLoad("extrabus") = 5
    /\ BalanceRows = {}

\* the components whose loss variable enters the dispatch bounds
Lossy(c) == c \in {"Line"} /\ n.transmission_losses > 0
\* the per-unit dispatch bounds of asset a for the variable attr
MinPu(c, a, attr) ==
    CASE c = "Line" -> 0 - n.df[c][a].s_max_pu
      [] c = "StorageUnit" -> 0
      [] c = "Store" -> n.df[c][a].e_min_pu
      [] OTHER -> n.df[c][a].p_min_pu
MaxPu(c, a, attr) ==
    CASE c = "Line" -> n.df[c][a].s_max_pu
      [] c = "StorageUnit" ->
            (IF attr = "p_store" THEN 0 - n.df[c][a].p_min_pu
             ELSE IF attr = "state_of_charge" THEN n.df[c][a].max_hours
             ELSE n.df[c][a].p_max_pu)
      [] c = "Store" -> n.df[c][a].e_max_pu
      [] OTHER -> n.df[c][a].p_max_pu
OperationalVariables ==
    {<<"Generator", "p">>, <<"Line", "s">>, <<"StorageUnit", "p_dispatch">>,
     <<"StorageUnit", "p_store">>, <<"StorageUnit", "state_of_charge">>,
     <<"Store", "e">>}
FixedNonCommittable(c) ==
    {a \in DOMAIN n.df[c] :
        /\ ~n.df[c][a][NominalName(c) \o "_extendable"]
        /\ c = "Generator" => ~n.df[c][a].committable}

\* C8: in every solution the dispatch of a fixed non-committable asset
\* lies between min_pu * nom and max_pu * nom at every snapshot; for a
\* lossy passive branch dispatch - loss >= min_pu * nom and
\* dispatch + loss <= max_pu * nom.
C8_DispatchBounds ==
    Solved =>
        \A ca \in OperationalVariables : \A a \in FixedNonCommittable(ca[1]) :
            \A t \in 1..n.T :
                LET c == ca[1]
                    nom == n.df[c][a][NominalName(c)]
                    x == sol[VarRef(c \o "-" \o ca[2], t, a)]
                    loss == IF Lossy(c) THEN sol[VarRef(c \o "-loss", t, a)]
                            ELSE 0
                IN /\ x - loss >= MinPu(c, a, ca[2]) * nom
                   /\ x + loss <= MaxPu(c, a, ca[2]) * nom

\* a solution where a lossy line is at its upper bound with a positive loss
\* and the generator is at its capacity
C8_Witness ==
    /\ Solved /\ n.transmission_losses > 0
    /\ \E t \in 1..n.T :
          /\ sol[VarRef("Line-loss", t, "line")] > 0
          /\ sol[VarRef("Line-s", t, "line")]
                + sol[VarRef("Line-loss", t, "line")]
               = n.df["Line"]["line"].s_nom
          /\ sol[VarRef("Generator-p", t, "gen")]
               = n.df["Generator"]["gen"].p_nom

Committable == {a \in DOMAIN n.df["Generator"] : n.df["Generator"][a].committable}
\* the committable assets the two unit-commitment routines cover: the
\* modular ones and the fixed non-modular ones
CommittableWithTransitions ==
    {a \in Committable :
        \/ n.df["Generator"][a].p_nom_mod > 0
        \/ ~n.df["Generator"][a].p_nom_extendable}
Status(t, a) == sol[VarRef("Generator-status", t, a)]
StartUp(t, a) == sol[VarRef("Generator-start_up", t, a)]
ShutDown(t, a) == sol[VarRef("Generator-shut_down", t, a)]

\* C1 as stated: in every solution status_t - status_{t-1} equals
\* start_up_t - shut_down_t for every committable asset and every pair of
\* consecutive snapshots.
C1_TransitionIdentity ==
    Solved =>
        \A a \in Committable : \A t \in 2..n.T :
            Status(t, a) - Status(t - 1, a) = StartUp(t, a) - ShutDown(t, a)

\* C1 amended: for every committable asset that is modular or not
\* extendable and every pair of consecutive snapshots, every solution has
\* start_up_t >= status_t - status_{t-1} and
\* shut_down_t >= status_{t-1} - status_t; the two rows are one-sided and
\* leave start_up_t - shut_down_t free above these limits.  A committable
\* asset that is extendable and not modular gets no transition row.
C1_TransitionInequalities ==
    /\ Built =>
         \A a \in Committable :
            LET rows == {r \in m.constraints : r.i = a /\
                           \E tm \in r.terms :
                              tm.var.v \in {"Generator-start_up",
                                            "Generator-shut_down"} /\
                              \E o \in r.terms : o.var.v = "Generator-status"
                                                   /\ o.var.sn = r.sn - 1}
            IN IF a \in CommittableWithTransitions
               THEN \A t \in 2..n.T :
                       Cardinality({r \in rows : r.sn = t /\ r.sense = ">="
                                                /\ Cardinality(r.terms) = 3}) = 2
               ELSE rows = {}
    /\ Solved =>
         \A a \in CommittableWithTransitions : \A t \in 2..n.T :
            /\ StartUp(t, a) >= Status(t, a) - Status(t - 1, a)
            /\ ShutDown(t, a) >= Status(t - 1, a) - Status(t, a)

\* a solution in which a unit that was off comes on and the start-up row
\* is tight
C1_Witness ==
    /\ Solved
    /\ \E a \in CommittableWithTransitions : \E t \in 2..n.T :
          /\ Status(t - 1, a) = 0 /\ Status(t, a) = 1
          /\ StartUp(t, a) = 1 /\ ShutDown(t, a) = 0

CommitmentVariables ==
    {"Generator-status", "Generator-start_up", "Generator-shut_down"}

\* C9 as stated: the commitment variables are declared over snapshots x
\* committable assets with lower bound 0 and upper bound 1 on the variable
\* itself, integer iff the relaxation is disabled.
C9_UnitBounds ==
    Built =>
        \A name \in CommitmentVariables :
            Committable # {} =>
                /\ HasVar(m, name)
                /\ Var(m, name).coords = (1..n.T) \X Committable
                /\ Var(m, name).lower = 0
                /\ \A cell \in Var(m, name).coords :
                      Var(m, name).upper[cell] = 1
                /\ Var(m, name).integer <=> ~n.linearized_uc

\* the number of modules a fixed modular asset is made of
FixedModules(a) ==
    n.df["Generator"][a].p_nom \div n.df["Generator"][a].p_nom_mod

\* C9 amended: the commitment variables are declared over snapshots x
\* committable assets with lower bound 0 and no upper bound on the variable
\* itself, integer iff the relaxation is disabled; in a solution they are
\* limited by separate rows, to 1 for a non-modular asset and to the number
\* of modules for a modular one.
C9_LowerBoundOnly ==
    /\ Built =>
         \A name \in CommitmentVariables :
            /\ HasVar(m, name) <=> Committable # {}
            /\ Committable # {} =>
                  /\ Var(m, name).coords = (1..n.T) \X Committable
                  /\ Var(m, name).labels = Var(m, name).coords
                  /\ Var(m, name).lower = 0
                  /\ \A cell \in Var(m, name).coords :
                        Var(m, name).upper[cell] = Inf
                  /\ Var(m, name).integer <=> ~n.linearized_uc
    /\ Solved =>
         \A name \in CommitmentVariables : \A a \in Committable :
            \A t \in 1..n.T :
               LET x == sol[VarRef(name, t, a)]
                   g == n.df["Generator"][a]
               IN /\ x >= 0
                  /\ g.p_nom_mod = 0 => x <= 1
                  /\ g.p_nom_mod > 0 /\ ~g.p_nom_extendable =>
                        x <= FixedModules(a)
                  /\ g.p_nom_mod > 0 /\ g.p_nom_extendable =>
                        x <= sol[VarRef("Generator-n_mod", 0, a)]

\* a solution in which the status of a modular asset is above 1
C9_Witness ==
    /\ Solved
    /\ \E a \in Committable : \E t \in 1..n.T :
          /\ Status(t, a) = 2
          /\ Var(m, "Generator-status").upper[<<t, a>>] = Inf
          /\ Var(m, "Generator-status").integer

\* the (snapshot, asset) cell is inside the asset's lifetime
Active(c, a, t) ==
    \/ ~n.multi_invest
    \/ /\ n.df[c][a].build_year <= n.period[t]
       /\ n.period[t] < n.df[c][a].build_year + n.df[c][a].lifetime
ActiveSnapshots(c, a) == {t \in 1..n.T : Active(c, a, t)}

\* the storage components: state variable, cyclic flag, per-period flags
Storages ==
    {[c |-> "StorageUnit", state |-> "StorageUnit-state_of_charge",
      cyclic |-> "cyclic_state_of_charge",
      pp1 |-> "cyclic_state_of_charge_per_period",
      pp2 |-> "state_of_charge_initial_per_period"],
     [c |-> "Store", state |-> "Store-e", cyclic |-> "e_cyclic",
      pp1 |-> "e_cyclic_per_period", pp2 |-> "e_initial_per_period"]}
\* the assets of a storage component that cycle over the whole horizon
CyclicOverHorizon(st) ==
    {a \in DOMAIN n.df[st.c] :
        /\ n.df[st.c][a][st.cyclic]
        /\ ~(n.multi_invest /\ (n.df[st.c][a][st.pp1] \/ n.df[st.c][a][st.pp2]))
        /\ ActiveSnapshots(st.c, a) # {}}

\* C5: for a storage unit or store that cycles over the whole horizon, the
\* energy balance row of its first active snapshot takes the state of its
\* last active snapshot as the previous state, whatever the snapshots are
\* at which the asset is active.
C5_CyclicPrevious ==
    Built =>
        \A st \in Storages : \A a \in CyclicOverHorizon(st) :
            LET first == Min(ActiveSnapshots(st.c, a))
                last == Max(ActiveSnapshots(st.c, a))
                rows == {r \in m.constraints :
                           /\ r.name = st.c \o "-energy_balance"
                           /\ r.i = a /\ r.sn = first}
            IN /\ Cardinality(rows) = 1
               /\ \A r \in rows :
                     {tm \in r.terms : tm.var.v = st.state}
                       = {[coef |-> 0 - 1, var |-> VarRef(st.state, first, a)],
                          [coef |-> 1 - n.df[st.c][a].standing_loss,
                           var |-> VarRef(st.state, last, a)]}

\* a built network whose cyclic storage unit is inactive at the start: the
\* row of its first active snapshot refers to the last snapshot
C5_Witness ==
    /\ Built /\ n.multi_invest
    /\ "su" \in CyclicOverHorizon(CHOOSE st \in Storages : st.c = "StorageUnit")
    /\ ActiveSnapshots("StorageUnit", "su") = 2..n.T
    /\ \E r \in m.constraints :
          /\ r.name = "StorageUnit-energy_balance" /\ r.sn = 2
          /\ [coef |-> 1, var |-> VarRef("StorageUnit-state_of_charge", n.T, "su")]
                \in r.terms

\* the variables that are declared per snapshot, by component
SnapshotVariables(c) ==
    CASE c = "Generator" -> {"Generator-p", "Generator-status",
                             "Generator-start_up", "Generator-shut_down"}
      [] c = "Line" -> {"Line-s", "Line-loss"}
      [] c = "StorageUnit" -> {"StorageUnit-p_dispatch", "StorageUnit-p_store",
                               "StorageUnit-state_of_charge",
                               "StorageUnit-spill"}
      [] c = "Store" -> {"Store-e", "Store-p"}

\* C6: in a multi-period build no variable of an inactive (snapshot, asset)
\* cell carries a label, no row is emitted for the cell and no row of
\* another cell has a term on it; the cells inside the lifetime keep their
\* operational variables.
C6_InactiveCells ==
    Built /\ n.multi_invest =>
        \A c \in NominalComponents : \A a \in DOMAIN n.df[c] : \A t \in 1..n.T :
            IF Active(c, a, t)
            THEN \A d \in m.variables :
                    d.name \in SnapshotVariables(c) \ {"StorageUnit-spill"}
                       /\ <<t, a>> \in d.coords
                    => <<t, a>> \in d.labels
            ELSE /\ \A d \in m.variables :
                       d.name \in SnapshotVariables(c) =>
                          <<t, a>> \notin d.labels
                 /\ \A r \in m.constraints :
                       /\ ~(r.sn = t /\ r.i = a)
                       /\ \A tm \in r.terms :
                             ~(tm.var.sn = t /\ tm.var.i = a)

\* a multi-period build with a committable generator and a lossy line that
\* are inactive at the first snapshot and constrained at the later ones
C6_Witness ==
    /\ Built /\ n.multi_invest
    /\ n.df["Generator"]["gen"].committable
    /\ ~Active("Generator", "gen", 1) /\ Active("Generator", "gen", 2)
    /\ <<1, "gen">> \in Var(m, "Generator-status").coords
    /\ <<1, "gen">> \notin Var(m, "Generator-status").labels
    /\ HasVar(m, "Line-loss") /\ <<1, "line">> \notin Var(m, "Line-loss").labels
    /\ \E r \in m.constraints :
          /\ r.sn = 2 /\ r.i = "gen"
          /\ \E tm \in r.terms : tm.var.v = "Generator-start_up"
    /\ \E r \in m.constraints : r.sn = 2 /\ r.i = "su"

\* the declarations of the operational variable of component c and
\* attribute attr in the model mm are exactly one over the snapshots and
\* the current assets of c, continuous and unbounded, or none when c has no
\* asset
DeclaredOverCurrentAssets(mm, c, attr) ==
    LET declared == {d \in mm.variables : d.name = c \o "-" \o attr}
        coords == (1..n.T) \X DOMAIN n.df[c]
    IN IF DOMAIN n.df[c] = {} THEN declared = {}
       ELSE declared = {[name |-> c \o "-" \o attr, coords |-> coords,
                         labels |-> coords, lower |-> NegInf,
                         upper |-> [x \in coords |-> Inf],
                         integer |-> FALSE]}
\* every term of every row of mm refers to a cell of a declared variable
TermsDeclared(mm) ==
    \A r \in mm.constraints : \A tm \in r.terms :
        \E d \in mm.variables :
            d.name = tm.var.v /\ <<tm.var.sn, tm.var.i>> \in d.labels

\* no name is declared twice in mm and no row is emitted twice under one
\* name and one pair of coordinates
DeclaredOnce(mm) ==
    /\ \A d \in mm.variables : \A e \in mm.variables :
          d.name = e.name => d = e
    /\ \A r \in mm.constraints : \A q \in mm.constraints :
          r.name = q.name /\ r.sn = q.sn /\ r.i = q.i => r = q

\* C7: the built model depends on the current tables only, not on a build
\* before: a build from the same network as the build before yields the
\* same variables and rows (names, bounds, coefficients), whether either
\* build started from an empty model or from the model the build before
\* left; and after every build, also one that ran on the model of a build
\* of other tables, each name is declared once, the operational variables
\* are declared over exactly the assets the network has at that build, and
\* every row refers to declared cells only.
C7_BuildFromCurrentTables ==
    pc = "built" =>
        /\ builds >= 2 /\ n_built = n_prev => m = m_prev
        /\ DeclaredOnce(m)
        /\ \A ca \in OperationalVariables :
              DeclaredOverCurrentAssets(m, ca[1], ca[2])
        /\ TermsDeclared(m)

\* the second build, after "generator2" was added, ran on the model the
\* first build left: that model declares the dispatch variable without the
\* new generator and has rows of the names the second build emits; the
\* second build left one declaration that covers the new generator and
\* none of those rows
C7_Witness ==
    /\ pc = "built" /\ builds = 2
    /\ "generator2" \in DOMAIN n.df["Generator"]
    /\ "generator2" \notin DOMAIN n_prev.df["Generator"]
    /\ m_start = m_prev /\ m_start # EmptyModel
    /\ HasVar(m_start, "Generator-p")
    /\ <<1, "generator2">> \notin Var(m_start, "Generator-p").coords
    /\ <<1, "generator2">> \in Var(m, "Generator-p").coords
    /\ \E r \in m_start.constraints : \E q \in m.constraints :
          r.name = q.name /\ r.sn = q.sn /\ r.i = q.i /\ r # q
    /\ m # m_prev

(***************************************************************************)
(* Networks: a fleet of two committable generators.                        *)
(***************************************************************************)
FleetKinds == {"fix", "fix-mod", "ext", "ext-mod"}

\* a committable generator of the given kind; the module size is MaxVal
FleetGenerator(kind, p_nom, start_up_cost) ==
    [GeneratorDefaults EXCEPT
        !.committable = TRUE, !.p_nom = p_nom,
        !.p_nom_extendable = (kind \in {"ext", "ext-mod"}),
        !.p_nom_mod = IF kind \in {"fix-mod", "ext-mod"} THEN MaxVal ELSE 0,
        !.p_nom_max = 2 * MaxVal,
        !.min_up_time = 2, !.min_down_time = 1,
        !.start_up_cost = start_up_cost]

\* two committable generators of any two kinds on one bus; the capacity of
\* the first is or is not a multiple of the module size, the start-up cost
\* of the second is or is not its shut-down cost
InitFleet ==
    \E kind1 \in FleetKinds, kind2 \in FleetKinds,
       p_nom \in 1..(2 * MaxVal), start_up_cost \in {0, 1},
       linearized \in BOOLEAN :
        LET gens == ("gen1" :> FleetGenerator(kind1, p_nom, 0))
                    @@ ("gen2" :> FleetGenerator(kind2, 2 * MaxVal,
                                                 start_up_cost))
        IN Start([OneBus(gens, << >>) EXCEPT !.linearized_uc = linearized])

SpecFleet == InitFleet /\ [][NextBuild]_vars

(***************************************************************************)
(* Claims on the limits of the commitment variables.                       *)
(***************************************************************************)
\* the committable assets with a module size that are not extendable
FixedModular ==
    {a \in Committable : /\ ~n.df["Generator"][a].p_nom_extendable
                         /\ n.df["Generator"][a].p_nom_mod > 0}
\* those whose capacity is not a whole number of modules
NotMultiple ==
    {a \in FixedModular :
        n.df["Generator"][a].p_nom % n.df["Generator"][a].p_nom_mod # 0}
FixedUpperName(v) == "Generator-" \o v \o "-p_nom-fixed-upper"
VariableUpperName(v) == "Generator-" \o v \o "-p_nom-variable-upper"
CommitmentNames == {"status", "start_up", "shut_down"}
FixedUpperRows ==
    {r \in m.constraints : \E v \in CommitmentNames : r.name = FixedUpperName(v)}
\* the step of the build that runs routine op for component c
StepOf(op, c) ==
    CHOOSE i \in 1..Len(Steps) : Steps[i].op = op /\ Steps[i].c = c
\* routine op has run for component c in this build
Done(op, c) == Built \/ (pc = "build" /\ k > StepOf(op, c))

\* C11: if the capacity of some committable, non-extendable asset with a
\* module size is not a multiple of that size, the build stops with
\* ValueError and no fixed upper limit row exists for any asset, modular or
\* not; otherwise the routine raises nothing and limits status, start_up
\* and shut_down of every such asset, at every snapshot, by p_nom / p_nom_mod.
C11_FixedUpperLimit ==
    /\ NotMultiple # {} =>
          /\ FixedUpperRows = {}
          /\ ~Built
          /\ pc = "error" => err = "ValueError"
    /\ NotMultiple = {} =>
          /\ pc # "error"
          /\ Done("define_committability_variables_constraints_with_fixed_upper_limit",
                  "Generator") =>
                \A a \in FixedModular : \A t \in 1..n.T :
                   \A v \in CommitmentNames :
                      \E r \in m.constraints :
                         /\ r.name = FixedUpperName(v)
                         /\ r.sn = t /\ r.i = a /\ r.sense = "<="
                         /\ r.rhs = FixedModules(a) /\ r.den = 1
                         /\ r.terms = {[coef |-> 1,
                                        var |-> VarRef("Generator-" \o v, t, a)]}

\* the build of a fleet with a non-modular unit and a modular unit of
\* capacity 1 and module size MaxVal has stopped without any limit row
C11_Witness ==
    /\ pc = "error" /\ err = "ValueError"
    /\ NotMultiple # {}
    /\ Committable \ FixedModular # {}
    /\ \E a \in Committable : n.df["Generator"][a].p_nom_mod = 0
    /\ FixedUpperRows = {}
    /\ HasVar(m, "Generator-status")

(***************************************************************************)
(* Networks: lines with or without a finite capacity.                      *)
(***************************************************************************)
\* one line that is fixed or extendable, with a finite or infinite s_nom
\* and s_nom_max, next to no, a fixed or an extendable second line with
\* finite capacities; the loss approximation has 0..MaxVal tangents
InitLoss ==
    \E ext \in BOOLEAN, s_nom \in {1, Inf}, s_nom_max \in {MaxVal, Inf},
       second \in {"none", "fix", "ext"}, losses \in 0..MaxVal,
       r \in {0, 1} :
        LET line == [LineDefaults EXCEPT
                       !.s_nom = s_nom, !.s_nom_extendable = ext,
                       !.s_nom_max = s_nom_max, !.r = r]
            line2 == [LineDefaults EXCEPT
                        !.s_nom = 1, !.s_nom_extendable = (second = "ext"),
                        !.s_nom_max = IF second = "ext" THEN MaxVal ELSE Inf,
                        !.r = r]
            lines == IF second = "none" THEN "line" :> line
                     ELSE ("line" :> line) @@ ("line2" :> line2)
            buses == ("bus" :> BusDefaults) @@ ("bus1" :> BusDefaults)
        IN Start([EmptyNetwork EXCEPT
                    !.df["Line"] = lines, !.df["Bus"] = buses,
                    !.transmission_losses = losses])

SpecLoss == InitLoss /\ [][NextBuild]_vars

(***************************************************************************)
(* Claims on the loss approximation.                                       *)
(***************************************************************************)
Lines == DOMAIN n.df["Line"]
\* the names of the rows define_loss_constraints emits
LossRowNames ==
    {"Line-loss_upper"} \cup
    {"Line-loss_tangents-" \o ToString(ks[1]) \o "-" \o ToString(ks[2])
       : ks \in (1..n.transmission_losses) \X {0 - 1, 1}}
LossRows == {r \in m.constraints : r.name \in LossRowNames}
\* some extendable line has no finite s_nom_max
ExtendableUnbounded ==
    \E a \in Lines : /\ n.df["Line"][a].s_nom_extendable
                     /\ n.df["Line"][a].s_nom_max = Inf
\* some fixed line has no finite s_nom
FixedUnbounded ==
    \E a \in Lines : /\ ~n.df["Line"][a].s_nom_extendable
                     /\ n.df["Line"][a].s_nom = Inf

\* C12 as stated: with the loss approximation enabled the build stops with
\* ValueError, without any loss upper or tangent row, if and only if some
\* extendable line has a non-finite s_nom_max.
C12_RaisesIffExtendableUnbounded ==
    n.transmission_losses > 0 =>
        /\ pc = "error" => ExtendableUnbounded
        /\ ExtendableUnbounded => ~Built /\ LossRows = {}

\* C12 amended: with the loss approximation enabled the build stops with
\* ValueError, without any loss upper or tangent row, if and only if some
\* line has a non-finite capacity, which is s_nom_max for an extendable
\* line and s_nom for a fixed one; otherwise every line gets the loss upper
\* row and two tangent rows per tangent at every snapshot.
C12_RaisesIffUnbounded ==
    n.transmission_losses > 0 =>
        /\ pc = "error" =>
              /\ err = "ValueError"
              /\ ExtendableUnbounded \/ FixedUnbounded
        /\ ExtendableUnbounded \/ FixedUnbounded => ~Built /\ LossRows = {}
        /\ Built =>
              \A a \in Lines : \A t \in 1..n.T :
                 /\ Cardinality({r \in LossRows : r.i = a /\ r.sn = t
                                    /\ r.name = "Line-loss_upper"}) = 1
                 /\ Cardinality({r \in LossRows : r.i = a /\ r.sn = t
                                    /\ r.name # "Line-loss_upper"})
                       = 2 * n.transmission_losses

\* the build has stopped at the loss constraints of a network whose only
\* unbounded line is a fixed one with infinite s_nom
C12_Witness ==
    /\ pc = "error" /\ err = "ValueError"
    /\ n.transmission_losses > 0
    /\ FixedUnbounded /\ ~ExtendableUnbounded
    /\ HasVar(m, "Line-loss")
    /\ LossRows = {}

(***************************************************************************)
(* Claims on the two committable constraint routines.                      *)
(***************************************************************************)
\* the two routines: the assets they cover and the names of their rows
CommittableRoutines ==
    {[op |-> "define_operational_constraints_for_committables_and_modular",
      prefix |-> "Generator-com-mod-", suffix |-> "-committable-modular",
      assets |-> {a \in Committable : n.df["Generator"][a].p_nom_mod > 0}],
     [op |-> "define_operational_constraints_for_committables_non_modular_non_extendables",
      prefix |-> "Generator-com-non-mod-fix-", suffix |-> "",
      assets |-> {a \in Committable :
                     /\ n.df["Generator"][a].p_nom_mod = 0
                     /\ ~n.df["Generator"][a].p_nom_extendable}]}
TighteningKinds == {"p-before", "p-current", "partly-start-up", "partly-shut-down"}
\* the rows of routine R of the given kind for asset a at snapshot t
RoutineRows(R, kind, a, t) ==
    {r \in m.constraints :
        r.name = R.prefix \o kind \o R.suffix /\ r.i = a /\ r.sn = t}
RowCount(R, kind, a, t) == Cardinality(RoutineRows(R, kind, a, t))
\* start_up_cost equals shut_down_cost for every asset of the routine
CostsEqual(R) ==
    \A a \in R.assets :
        n.df["Generator"][a].start_up_cost = n.df["Generator"][a].shut_down_cost
\* the number of leading snapshots the asset must stay up
MustStayUp(a) ==
    LET g == n.df["Generator"][a]
    IN IF g.up_time_before # 0 /\ g.min_up_time > g.up_time_before
       THEN g.min_up_time - g.up_time_before ELSE 0
MustStayDown(a) ==
    LET g == n.df["Generator"][a]
    IN IF g.down_time_before # 0 /\ g.min_down_time > g.down_time_before
       THEN g.min_down_time - g.down_time_before ELSE 0

\* the rows: once a committable routine has run without investment periods, the
\* four tightening rows exist, one per asset and snapshot after the first,
\* if and only if the linearized unit commitment is enabled and the
\* start-up cost equals the shut-down cost for every asset of the routine;
\* with the relaxation enabled and unequal costs none of them exists, the
\* warning is logged and the build does not stop.  The dispatch bounds, the
\* transition rows, the minimum up and down time rows and the must-stay
\* rows are emitted in either case.
TighteningRowsEmitted ==
    \A R \in CommittableRoutines :
        Done(R.op, "Generator") /\ R.assets # {} =>
            LET tight == n.linearized_uc /\ CostsEqual(R)
            IN /\ \A kind \in TighteningKinds : \A a \in R.assets :
                     \A t \in 1..n.T :
                        RowCount(R, kind, a, t)
                            = IF tight /\ t > 1 THEN 1 ELSE 0
               /\ n.linearized_uc /\ ~CostsEqual(R) =>
                     not_tightened \in log /\ pc # "error"
               /\ \A a \in R.assets : \A t \in 1..n.T :
                     /\ RowCount(R, "p-lower", a, t) = 1
                     /\ RowCount(R, "p-upper", a, t) = 1
                     /\ RowCount(R, "transition-start-up", a, t) = 1
                     /\ RowCount(R, "transition-shut-down", a, t) = 1
                     /\ RowCount(R, "up-time", a, t)
                          = IF t > 1 /\ n.df["Generator"][a].min_up_time # 0
                            THEN 1 ELSE 0
                     /\ RowCount(R, "down-time", a, t)
                          = IF t > 1 /\ n.df["Generator"][a].min_down_time # 0
                            THEN 1 ELSE 0
                     /\ RowCount(R, "status-min_up_time_must_stay_up", a, t)
                          = IF t <= MustStayUp(a) THEN 1 ELSE 0
                     /\ RowCount(R, "status-min_down_time_must_stay_up", a, t)
                          = IF t <= MustStayDown(a) THEN 1 ELSE 0

\* the warning: after both routines it is in the log if and only if
\* the linearized unit commitment is enabled and the costs differ for some
\* asset of one of the routines.
TighteningWarningLogged ==
    (\A R \in CommittableRoutines : Done(R.op, "Generator")) =>
        (not_tightened \in log <=>
            /\ n.linearized_uc
            /\ \E R \in CommittableRoutines : R.assets # {} /\ ~CostsEqual(R))

\* C13: in each committable routine the four tightening rows (p-before,
\* p-current, partly-start-up, partly-shut-down) are added if and only if
\* the linearized unit commitment is enabled and start_up_cost equals
\* shut_down_cost for every asset of the routine; with the relaxation
\* enabled and unequal costs none is added, the warning is logged, no error
\* is raised, and the dispatch bounds, transition, minimum up and down time
\* and must-stay rows are emitted as in the equal-cost case.
C13_Tightening == TighteningRowsEmitted /\ TighteningWarningLogged

\* the build of a relaxed fleet has finished: both units are fixed and not
\* modular, their costs differ, the warning is logged, no tightening row
\* exists and the other rows of the two units are there
C13_Witness ==
    /\ pc = "built" /\ n.linearized_uc
    /\ not_tightened \in log
    /\ \E R \in CommittableRoutines :
          /\ Cardinality(R.assets) = 2 /\ ~CostsEqual(R)
          /\ \E a \in R.assets :
                n.df["Generator"][a].start_up_cost
                   = n.df["Generator"][a].shut_down_cost
          /\ \A a \in R.assets :
                /\ RowCount(R, "p-current", a, 2) = 0
                /\ RowCount(R, "p-upper", a, 2) = 1
                /\ RowCount(R, "up-time", a, 2) = 1
                /\ RowCount(R, "status-min_up_time_must_stay_up", a, 1) = 1

\* the dispatch of generator a at snapshot t in the solution
Dispatch(t, a) == sol[VarRef("Generator-p", t, a)]

\* C14: for every committable asset, modular or not, extendable or fixed,
\* and every snapshot, the dispatch bounds are gated by the status, so that
\* in every solution status = 0 forces dispatch = 0.
C14_StatusGatesDispatch ==
    Solved =>
        \A a \in Committable : \A t \in 1..n.T :
            Status(t, a) = 0 => Dispatch(t, a) = 0

(***************************************************************************)
(* Networks: one committable unit over a window of snapshots.              *)
(***************************************************************************)
\* a fixed committable generator without modules or of one or two modules,
\* with minimum up and down times, over the snapshots sns0..MaxSns: the
\* window starts at the first snapshot, the unit being up or down before,
\* or later, after solved snapshots with the stored status `earlier` at
\* the first snapshot (when two were solved) and `before` at the one just
\* before the window, a number of modules that are on
InitWindow ==
    \E sns0 \in 1..MaxSns, modules \in 0..2, before \in 0..2, earlier \in 0..2,
       min_up_time \in 0..MaxVal, min_down_time \in 0..MaxVal :
        LET cap == Max({1, modules})
            gens == "gen" :> [GeneratorDefaults EXCEPT
                                !.committable = TRUE, !.p_nom = cap,
                                !.p_nom_mod = IF modules > 0 THEN 1 ELSE 0,
                                !.min_up_time = min_up_time,
                                !.min_down_time = min_down_time,
                                !.up_time_before = before,
                                !.down_time_before = 1 - before]
            stored == "gen" :> [t \in 1..(sns0 - 1) |->
                                  IF t = sns0 - 1 THEN before ELSE earlier]
        IN /\ before <= (IF sns0 = 1 THEN 1 ELSE cap)
           /\ earlier <= (IF sns0 = MaxSns THEN cap ELSE 0)
           /\ Start([OneBus(gens, << >>) EXCEPT
                       !.T = MaxSns, !.sns0 = sns0,
                       !.period = [t \in 1..MaxSns |-> 1],
                       !.pnl_status = IF sns0 = 1 THEN << >> ELSE stored,
                       !.pnl_p = IF sns0 = 1 THEN << >> ELSE stored,
                       !.vals = 0..cap])

SpecWindow == InitWindow /\ [][Next]_vars

(***************************************************************************)
(* Claims on the minimum up and down times.                                *)
(***************************************************************************)
\* the snapshots of the window that is built and solved
Window == n.sns0..n.T
\* the unit was up before the window: by up_time_before when the window
\* starts at the first snapshot, by the solved status before it otherwise
UpBefore(a) ==
    IF n.sns0 = 1 THEN n.df["Generator"][a].up_time_before # 0
    ELSE n.pnl_status[a][n.sns0 - 1] = 1
\* the status of the snapshot before t
StatusBefore(t, a) ==
    IF t = n.sns0 THEN (IF UpBefore(a) THEN 1 ELSE 0) ELSE Status(t - 1, a)
StartsUp(t, a) == StatusBefore(t, a) = 0 /\ Status(t, a) = 1
ShutsDown(t, a) == StatusBefore(t, a) = 1 /\ Status(t, a) = 0

\* the committable assets with binary status: not more than one module
BinaryStatus ==
    {a \in CommittableWithTransitions :
        n.df["Generator"][a].p_nom_mod \in {0, n.df["Generator"][a].p_nom}}

\* C15: in every solution of a unit with binary status, a unit that starts
\* up at snapshot t of the window, the first one included, is up at every
\* snapshot t .. min(t + min_up_time - 1, last), and a unit that shuts down
\* at t is down at every snapshot t .. min(t + min_down_time - 1, last).
C15_MinimumUpDownTime ==
    Solved =>
        \A a \in BinaryStatus : \A t \in Window :
            LET g == n.df["Generator"][a]
            IN /\ StartsUp(t, a) =>
                    \A u \in t..Min({t + g.min_up_time - 1, n.T}) :
                        Status(u, a) = 1
               /\ ShutsDown(t, a) =>
                    \A u \in t..Min({t + g.min_down_time - 1, n.T}) :
                        Status(u, a) = 0

(***************************************************************************)
(* Networks: one committable unit that is mid-cycle at the horizon start.  *)
(***************************************************************************)
\* a fixed committable generator with any up_time_before, down_time_before,
\* min_up_time and min_down_time in 0..MaxVal; with investment periods it
\* is active in both periods, in the first only or in the second only
InitBefore ==
    \E up_time_before \in 0..MaxVal, down_time_before \in 0..MaxVal,
       min_up_time \in 0..MaxVal, min_down_time \in 0..MaxVal,
       modular \in BOOLEAN,
       years \in {<<0, Inf>>, <<1, Inf>>, <<1, 1>>, <<2, Inf>>} :
        LET multi == years[1] # 0
            gens == "gen" :> [GeneratorDefaults EXCEPT
                                !.committable = TRUE, !.p_nom = 1,
                                !.p_nom_mod = IF modular THEN 1 ELSE 0,
                                !.min_up_time = min_up_time,
                                !.min_down_time = min_down_time,
                                !.up_time_before = up_time_before,
                                !.down_time_before = down_time_before,
                                !.build_year = years[1],
                                !.lifetime = years[2]]
        IN Start([OneBus(gens, << >>) EXCEPT
                    !.T = MaxSns, !.multi_invest = multi,
                    !.period = Periods(MaxSns, IF multi THEN 1 ELSE MaxSns)])

SpecBefore == InitBefore /\ [][NextBuild]_vars

(***************************************************************************)
(* Claims on the state before the horizon.                                 *)
(***************************************************************************)
\* the first cnt active snapshots of generator a
FirstActive(a, cnt) ==
    LET act == ActiveSnapshots("Generator", a)
    IN {t \in act : Cardinality({x \in act : x <= t}) <= cnt}
\* the snapshots at which a must-stay row forces the status of a to 1 / 0
ForcedUp(a) ==
    {t \in 1..n.T : \E R \in CommittableRoutines :
        \E r \in RoutineRows(R, "status-min_up_time_must_stay_up", a, t) :
            r.sense = "=" /\ r.rhs = 1 /\ r.terms # {}}
ForcedDown(a) ==
    {t \in 1..n.T : \E R \in CommittableRoutines :
        \E r \in RoutineRows(R, "status-min_down_time_must_stay_up", a, t) :
            r.sense = "=" /\ r.rhs = 0 /\ r.terms # {}}
BothCommittableRoutinesDone ==
    \A R \in CommittableRoutines : Done(R.op, "Generator")

\* C16: an asset that is up before the horizon with up_time_before = u and
\* min_up_time = U has its status forced to 1 at exactly the first
\* max(U - u, 0) active snapshots; an asset that is down before the horizon
\* with down_time_before = d and min_down_time = D has its status forced to
\* 0 at exactly the first max(D - d, 0) active snapshots; no asset is
\* subject to both forcings at the same snapshot.
C16_MustStay ==
    BothCommittableRoutinesDone =>
        \A a \in CommittableWithTransitions :
            LET g == n.df["Generator"][a]
            IN /\ ForcedUp(a) =
                    IF g.up_time_before # 0
                    THEN FirstActive(a, Clip0(g.min_up_time - g.up_time_before))
                    ELSE {}
               /\ ForcedDown(a) =
                    IF g.down_time_before # 0
                    THEN FirstActive(a, Clip0(g.min_down_time
                                                 - g.down_time_before))
                    ELSE {}
               /\ ForcedUp(a) \cap ForcedDown(a) = {}

\* the rows that limit commitment variable v of asset a at snapshot t
UpperRows(v, t, a) ==
    {r \in m.constraints :
        /\ r.name \in {FixedUpperName(v), VariableUpperName(v)}
        /\ r.sn = t /\ r.i = a}
BothUpperLimitsDone ==
    /\ Done("define_committability_variables_constraints_with_fixed_upper_limit",
            "Generator")
    /\ Done("define_committability_variables_constraints_with_variable_upper_limit",
            "Generator")

\* C17: once both upper limit routines have run, every committable asset
\* has exactly one upper limit row for each of status, start_up and
\* shut_down at every snapshot: the constant 1 if it is not modular, the
\* constant p_nom / p_nom_mod if it is modular and not extendable, the
\* module count variable if it is modular and extendable.
C17_OneUpperLimit ==
    BothUpperLimitsDone =>
        \A a \in Committable : \A t \in 1..n.T : \A v \in CommitmentNames :
            LET g == n.df["Generator"][a]
                x == [coef |-> 1, var |-> VarRef("Generator-" \o v, t, a)]
                n_mod == [coef |-> 0 - 1,
                          var |-> VarRef("Generator-n_mod", 0, a)]
                constant(rhs) ==
                    {[name |-> FixedUpperName(v), sn |-> t, i |-> a,
                      terms |-> {x}, sense |-> "<=", rhs |-> rhs, den |-> 1]}
            IN UpperRows(v, t, a) =
                  IF g.p_nom_mod = 0 THEN constant(1)
                  ELSE IF ~g.p_nom_extendable THEN constant(FixedModules(a))
                  ELSE {[name |-> VariableUpperName(v), sn |-> t, i |-> a,
                         terms |-> {x, n_mod}, sense |-> "<=", rhs |-> 0,
                         den |-> 1]}

\* both routines have run for a fleet of a non-modular unit, limited by 1,
\* and an extendable modular unit, limited by its module count
C17_Witness ==
    /\ BothUpperLimitsDone
    /\ \E a \in Committable : \E b \in Committable :
          /\ n.df["Generator"][a].p_nom_mod = 0
          /\ n.df["Generator"][b].p_nom_mod > 0
          /\ n.df["Generator"][b].p_nom_extendable
          /\ \E r \in UpperRows("status", 1, a) : r.rhs = 1
          /\ \E r \in UpperRows("status", 1, b) :
                \E tm \in r.terms : tm.var.v = "Generator-n_mod"


(***************************************************************************)
(* Networks: a ramp-limited generator over a window of snapshots.          *)
(***************************************************************************)
\* what balances the ramp-limited generator on the bus: a generator without
\* ramp limits, one whose two limits are 1, or a committable unit of two
\* modules of size 1 whose limits are 1
RampKinds == {"free", "one", "modular"}

\* the fixed non-committable generator "gen" of capacity 1 with the limits
\* ramp_limit_up and ramp_limit_down in {null, 0, 1} and p_min_pu in
\* {-1, 0}, and the generator "other" of one of RampKinds, over the
\* snapshots sns0..MaxSns: the window starts at the first snapshot, or one
\* snapshot later after a solved first snapshot with the dispatch p_hist;
\* the committable unit balances a generator that may not ramp
InitRamp ==
    \E sns0 \in 1..2, p_hist \in {0 - 1, 0, 1}, kind \in RampKinds,
       ramp_limit_up \in {NaN, 0, 1}, ramp_limit_down \in {NaN, 0, 1},
       p_min_pu \in {0 - 1, 0} :
        LET gen == [GeneratorDefaults EXCEPT
                      !.p_nom = 1, !.p_min_pu = p_min_pu,
                      !.ramp_limit_up = ramp_limit_up,
                      !.ramp_limit_down = ramp_limit_down]
            other ==
                CASE kind = "free" ->
                       [GeneratorDefaults EXCEPT !.p_nom = 1,
                                                 !.p_min_pu = 0 - 1]
                  [] kind = "one" ->
                       [GeneratorDefaults EXCEPT !.p_nom = 1,
                                                 !.p_min_pu = 0 - 1,
                                                 !.ramp_limit_up = 1,
                                                 !.ramp_limit_down = 1]
                  [] kind = "modular" ->
                       [GeneratorDefaults EXCEPT !.p_nom = 2, !.p_nom_mod = 1,
                                                 !.committable = TRUE,
                                                 !.ramp_limit_up = 1,
                                                 !.ramp_limit_down = 1]
            gens == ("gen" :> gen) @@ ("other" :> other)
        IN /\ p_min_pu <= p_hist
           /\ kind = "modular" =>
                 /\ p_hist <= 0 /\ p_min_pu = 0 - 1
                 /\ ramp_limit_up = 0 /\ ramp_limit_down = 0
           /\ Start([OneBus(gens, << >>) EXCEPT
                       !.T = MaxSns, !.sns0 = sns0,
                       !.period = [t \in 1..MaxSns |-> 1],
                       !.pnl_p =
                           IF sns0 = 1 THEN << >>
                           ELSE ("gen" :> [t \in 1..(sns0 - 1) |-> p_hist])
                                @@ ("other" :>
                                      [t \in 1..(sns0 - 1) |-> 0 - p_hist]),
                       !.pnl_status =
                           IF sns0 = 1 \/ kind # "modular" THEN << >>
                           ELSE "other" :> [t \in 1..(sns0 - 1) |-> 1],
                       !.vals = (0 - 1)..2])

SpecRamp == InitRamp /\ [][Next]_vars

(***************************************************************************)
(* Claims on the ramp limits.                                              *)
(***************************************************************************)
\* the committable generators with a module size > 0
CommittableModular ==
    {a \in Committable : n.df["Generator"][a].p_nom_mod > 0}
\* the dispatch before snapshot t of the window: the stored dispatch of the
\* snapshot before the window for its first snapshot
DispatchBefore(t, a) ==
    IF t = n.sns0 THEN n.pnl_p[a][n.sns0 - 1] ELSE Dispatch(t - 1, a)
\* the snapshots of the window whose dispatch the ramp limits constrain
RampLimited == IF n.sns0 = 1 THEN 2..n.T ELSE Window
\* the rows of the ramp limits
RampRows ==
    {r \in m.constraints :
        \E kind \in {"-fix-non-comm-", "-ext-non-comm-", "-ext-comm-non-mod-",
                     "-com-non-ext-non-mod-", "-com-mod-"},
           dir \in {"up", "down"} :
            r.name = "Generator" \o kind \o "p-ramp_limit_" \o dir}
\* in the solution a fixed non-committable asset keeps its ramp limits
RampLimitsKept ==
    \A a \in FixedNonCommittable("Generator") : \A t \in RampLimited :
        LET g == n.df["Generator"][a]
            delta == Dispatch(t, a) - DispatchBefore(t, a)
        IN /\ g.ramp_limit_up # NaN => delta <= g.ramp_limit_up * g.p_nom
           /\ g.ramp_limit_down # NaN =>
                delta >= 0 - g.ramp_limit_down * g.p_nom
\* a window that starts at the first snapshot has no ramp row there
FirstSnapshotFree ==
    n.sns0 = 1 => \A r \in RampRows : r.sn # 1
\* the ramp rows of a committable modular asset weigh the status by the
\* limits times the module size
ScaledByModule ==
    \A a \in CommittableModular : \A r \in RampRows : r.i = a =>
        LET g == n.df["Generator"][a]
            now == VarRef("Generator-status", r.sn, a)
            before == VarRef("Generator-status", r.sn - 1, a)
            coef(v) == {tm.coef : tm \in {x \in r.terms : x.var = v}}
        IN /\ r.name = "Generator-com-mod-p-ramp_limit_up" =>
                /\ coef(now) = {0 - g.ramp_limit_start_up * g.p_nom_mod}
                /\ r.sn # n.sns0 =>
                     coef(before) = {(g.ramp_limit_start_up - g.ramp_limit_up)
                                       * g.p_nom_mod}
           /\ r.name = "Generator-com-mod-p-ramp_limit_down" =>
                /\ coef(now) = {(g.ramp_limit_down - g.ramp_limit_shut_down)
                                  * g.p_nom_mod}
                /\ r.sn # n.sns0 =>
                     coef(before) = {g.ramp_limit_shut_down * g.p_nom_mod}

\* C18: in every solution a fixed non-committable asset with the ramp
\* limits ru, rd satisfies -rd * p_nom <= p_t - p_{t-1} <= ru * p_nom at
\* every snapshot t after the first of a window that starts at the first
\* snapshot, whose first snapshot has no ramp row, and at the first
\* snapshot of a later window against the stored dispatch before it as
\* well; the ramp rows of committable modular assets scale the limits by
\* p_nom_mod.
C18_RampLimits ==
    Solved => RampLimitsKept /\ FirstSnapshotFree /\ ScaledByModule


(***************************************************************************)
(* Networks: a storage unit and a store with an initial state.             *)
(***************************************************************************)
\* a storage unit and a store that start from the state 1, are cyclic over
\* the horizon or not, with or without the per-period flags, and that are
\* active in period 1 only, in period 2 only or in both; without
\* investment periods they are active at every snapshot; the standing loss
\* is 0 or 2 per snapshot
InitStorage ==
    \E multi \in BOOLEAN, split \in 1..(MaxSns - 1),
       years \in {<<1, 1>>, <<1, Inf>>, <<2, Inf>>}, inflow \in {0, 1},
       cyclic \in BOOLEAN, cyclic_per_period \in BOOLEAN,
       initial_per_period \in BOOLEAN, standing_loss \in {0, 2} :
        LET by == IF multi THEN years[1] ELSE 0
            lt == IF multi THEN years[2] ELSE Inf
            units == "su" :> [StorageUnitDefaults EXCEPT
                                !.p_nom = 1, !.inflow = inflow,
                                !.standing_loss = standing_loss,
                                !.state_of_charge_initial = 1,
                                !.cyclic_state_of_charge = cyclic,
                                !.cyclic_state_of_charge_per_period =
                                    cyclic_per_period,
                                !.state_of_charge_initial_per_period =
                                    initial_per_period,
                                !.build_year = by, !.lifetime = lt]
            stores == "st" :> [StoreDefaults EXCEPT
                                 !.e_nom = 1, !.e_initial = 1,
                                 !.standing_loss = standing_loss,
                                 !.e_cyclic = cyclic,
                                 !.e_cyclic_per_period = cyclic_per_period,
                                 !.e_initial_per_period = initial_per_period,
                                 !.build_year = by, !.lifetime = lt]
        IN /\ multi \/ (split = 1 /\ years = <<1, Inf>>)
           /\ Start([EmptyNetwork EXCEPT
                       !.T = MaxSns, !.multi_invest = multi,
                       !.period = Periods(MaxSns, IF multi THEN split ELSE MaxSns),
                       !.df["StorageUnit"] = units, !.df["Store"] = stores,
                       !.df["Bus"] = ("bus" :> BusDefaults)])

SpecStorage == InitStorage /\ [][NextBuild]_vars

(***************************************************************************)
(* Claims on the previous state of storage units and stores.               *)
(***************************************************************************)
\* the assets of a storage component under the single-horizon policy
\* (no per-period flag takes effect) that do not cycle
NonCyclicOverHorizon(st) ==
    {a \in DOMAIN n.df[st.c] :
        /\ ~n.df[st.c][a][st.cyclic]
        /\ ~(n.multi_invest /\ (n.df[st.c][a][st.pp1] \/ n.df[st.c][a][st.pp2]))
        /\ ActiveSnapshots(st.c, a) # {}}
\* the fixed initial state and the inflow of an asset
InitialState(st, a) ==
    IF st.c = "StorageUnit" THEN n.df[st.c][a].state_of_charge_initial
    ELSE n.df[st.c][a].e_initial
Inflow(st, a) == IF st.c = "StorageUnit" THEN n.df[st.c][a].inflow ELSE 0
\* the energy balance rows of asset a at snapshot t
EnergyBalanceRows(st, a, t) ==
    {r \in m.constraints :
        r.name = st.c \o "-energy_balance" /\ r.i = a /\ r.sn = t}
\* the terms of a row on the state variable
StateTerms(st, r) == {tm \in r.terms : tm.var.v = st.state}
\* the row of (a, t) starts from the fixed initial state
FromInitialState(st, a, t) ==
    \A r \in EnergyBalanceRows(st, a, t) :
        /\ StateTerms(st, r) = {[coef |-> 0 - 1, var |-> VarRef(st.state, t, a)]}
        /\ r.rhs = 0 - Inflow(st, a) - InitialState(st, a)
\* the row of (a, t) starts from the state of snapshot u
FromStateOf(st, a, t, u) ==
    \A r \in EnergyBalanceRows(st, a, t) :
        /\ StateTerms(st, r)
             = {[coef |-> 0 - 1, var |-> VarRef(st.state, t, a)],
                [coef |-> 1 - n.df[st.c][a].standing_loss,
                 var |-> VarRef(st.state, u, a)]}
        /\ r.rhs = 0 - Inflow(st, a)

\* C19: for a non-cyclic storage unit or store under the single-horizon
\* policy, whatever its active snapshots are, the energy balance row of the
\* first active snapshot has no previous-state variable and takes the fixed
\* initial state, the row of every later active snapshot takes the state
\* of the nearest earlier active snapshot, and no row has a term on the
\* state of an inactive snapshot.
C19_NonCyclicPrevious ==
    Built =>
        \A st \in Storages : \A a \in NonCyclicOverHorizon(st) :
            LET act == ActiveSnapshots(st.c, a)
                first == Min(act)
            IN /\ \A t \in act : Cardinality(EnergyBalanceRows(st, a, t)) = 1
               /\ FromInitialState(st, a, first)
               /\ \A t \in act \ {first} :
                     FromStateOf(st, a, t, Max({u \in act : u < t}))
               /\ \A r \in m.constraints : \A tm \in StateTerms(st, r) :
                     tm.var.i = a => tm.var.sn \in act

\* a built network whose non-cyclic storage unit is inactive at the first
\* snapshot: the row of snapshot 2 starts from the initial state 1 and the
\* row of snapshot 3 from the state of snapshot 2
C19_Witness ==
    /\ Built /\ n.multi_invest
    /\ "su" \in NonCyclicOverHorizon(CHOOSE st \in Storages : st.c = "StorageUnit")
    /\ ActiveSnapshots("StorageUnit", "su") = 2..n.T
    /\ \E r \in m.constraints :
          /\ r.name = "StorageUnit-energy_balance" /\ r.sn = 2
          /\ r.rhs = 0 - n.df["StorageUnit"]["su"].inflow - 1
          /\ {tm.var.sn : tm \in {x \in r.terms :
                 x.var.v = "StorageUnit-state_of_charge"}} = {2}
    /\ \E r \in m.constraints :
          /\ r.name = "StorageUnit-energy_balance" /\ r.sn = 3
          /\ [coef |-> 1, var |-> VarRef("StorageUnit-state_of_charge", 2, "su")]
                \in r.terms


\* the assets of a storage component that are built with investment
\* periods and have the per-period flag `flag` set and the other one unset
PerPeriod(st, flag) ==
    {a \in DOMAIN n.df[st.c] :
        /\ n.multi_invest
        /\ n.df[st.c][a][flag]
        /\ \A other \in {st.pp1, st.pp2} \ {flag} : ~n.df[st.c][a][other]}
\* the snapshots of the investment period of snapshot t
PeriodOf(t) == {u \in 1..n.T : n.period[u] = n.period[t]}
\* the active snapshots of asset a that are the first of their period
PeriodStarts(st, a) ==
    {t \in ActiveSnapshots(st.c, a) : t = Min(PeriodOf(t))}

\* C20: in a multi-period build, whatever the whole-horizon cyclic flag is,
\* the row of the first snapshot of each period takes the state of the last
\* snapshot of the same period as the previous state for an asset whose
\* per-period cyclic flag is set, and the fixed initial state for an asset
\* whose per-period initial-state flag is set.
C20_PerPeriodPolicy ==
    Built =>
        \A st \in Storages :
            /\ \A a \in PerPeriod(st, st.pp1) : \A t \in PeriodStarts(st, a) :
                  FromStateOf(st, a, t, Max(PeriodOf(t)))
            /\ \A a \in PerPeriod(st, st.pp2) : \A t \in PeriodStarts(st, a) :
                  FromInitialState(st, a, t)


(***************************************************************************)
(* Networks: three buses with one component of every type and a link.      *)
(***************************************************************************)
\* a generator on "bus", a store on "bus1", a storage unit and a load on
\* "bus2", a line from "bus" to "bus1" and a link between any two of the
\* buses whose third port is unused ("") or on a bus, with efficiency 1, 2
\* or 3 at bus1 and 3 at bus2, so that two ports on one bus may carry the
\* same efficiency; the one-port components inject or withdraw (sign 1 or
\* -1); with or without transmission losses
InitLinks ==
    \E sign \in {0 - 1, 1}, bus0 \in {"bus", "bus1"}, bus1 \in {"bus1", "bus2"},
       bus2 \in {"", "bus", "bus2"}, efficiency \in 1..3, p_set \in {0, 1},
       losses \in {0, 1} :
        LET gens == "gen" :> [GeneratorDefaults EXCEPT
                                !.p_nom = 1, !.sign = sign]
            stores == "st" :> [StoreDefaults EXCEPT
                                 !.bus = "bus1", !.e_nom = 1, !.sign = sign]
            units == "su" :> [StorageUnitDefaults EXCEPT
                                !.bus = "bus2", !.p_nom = 1, !.sign = sign]
            lines == "line" :> [LineDefaults EXCEPT
                                  !.s_nom = 1, !.r = 1]
            links == "link" :> [LinkDefaults EXCEPT
                                  !.bus0 = bus0, !.bus1 = bus1, !.bus2 = bus2,
                                  !.efficiency = efficiency,
                                  !.efficiency2 = 3, !.p_nom = 1]
            loads == "load" :> [LoadDefaults EXCEPT
                                  !.bus = "bus2", !.p_set = p_set]
            buses == [b \in {"bus", "bus1", "bus2"} |-> BusDefaults]
        IN Start([EmptyNetwork EXCEPT
                    !.transmission_losses = losses,
                    !.df["Generator"] = gens, !.df["Store"] = stores,
                    !.df["StorageUnit"] = units, !.df["Line"] = lines,
                    !.df["Link"] = links, !.df["Load"] = loads,
                    !.df["Bus"] = buses])

SpecLinks == InitLinks /\ [][NextBuild]_vars

(***************************************************************************)
(* Claims on the terms of the nodal balance.                               *)
(***************************************************************************)
\* the term coef * variable of asset a at snapshot t, with coef as a
\* multiple of one half when the losses are enabled
Injection(coef, name, t, a) ==
    [coef |-> (IF n.transmission_losses > 0 THEN 2 ELSE 1) * coef,
     var |-> VarRef(name, t, a)]
\* the assets of component c whose column `column` is bus b
OnBus(c, column, b) == {a \in DOMAIN n.df[c] : n.df[c][a][column] = b}
\* the terms the balance of bus b at snapshot t has; an asset with two
\* ends or ports on b enters once for each, and the entries add up
BalanceTerms(b, t) ==
    LET halves(column) ==
            IF n.transmission_losses > 0
            THEN {[coef |-> 0 - 1, var |-> VarRef("Line-loss", t, a)]
                    : a \in OnBus("Line", column, b)}
            ELSE {}
    IN merge(<<
        {Injection(n.df["Generator"][a].sign, "Generator-p", t, a)
            : a \in OnBus("Generator", "bus", b)},
        {Injection(n.df["Store"][a].sign, "Store-p", t, a)
            : a \in OnBus("Store", "bus", b)},
        {Injection(n.df["StorageUnit"][a].sign, "StorageUnit-p_dispatch", t, a)
            : a \in OnBus("StorageUnit", "bus", b)},
        {Injection(0 - n.df["StorageUnit"][a].sign, "StorageUnit-p_store", t, a)
            : a \in OnBus("StorageUnit", "bus", b)},
        {Injection(0 - 1, "Line-s", t, a) : a \in OnBus("Line", "bus0", b)},
        {Injection(1, "Line-s", t, a) : a \in OnBus("Line", "bus1", b)},
        {Injection(0 - 1, "Link-p", t, a) : a \in OnBus("Link", "bus0", b)},
        {Injection(n.df["Link"][a].efficiency, "Link-p", t, a)
            : a \in OnBus("Link", "bus1", b)},
        {Injection(n.df["Link"][a].efficiency2, "Link-p", t, a)
            : a \in OnBus("Link", "bus2", b)},
        halves("bus0"), halves("bus1") >>)

\* C21: the nodal balance row of every bus b and snapshot equals the net
\* load at b and has exactly the terms +sign * p of the generators and
\* stores at b, +sign * p_dispatch and -sign * p_store of the storage
\* units at b, -s of the lines from b and +s of the lines to b, -p of the
\* links from b, +efficiency * p of the links to b, +efficiency2 * p of
\* the links whose third port is b, and -0.5 * loss of each lossy branch
\* that ends at b; a port on the bus "" gives no term to any row.
C21_BalanceTerms ==
    BalanceDone /\ pc # "error" =>
        /\ \A b \in DOMAIN n.df["Bus"] : \A t \in 1..n.T :
              LET rows == {r \in BalanceRows : r.i = b /\ r.sn = t}
              IN /\ Cardinality(rows) = 1
                 /\ \A r \in rows :
                       /\ r.terms = BalanceTerms(b, t)
                       /\ r.sense = "="
                       /\ r.rhs = r.den * NetLoad(b)
                       /\ r.den = IF n.transmission_losses > 0 THEN 2 ELSE 1
        /\ \A r \in BalanceRows : r.i # ""

\* a built network with losses whose link feeds "bus2" from "bus" through
\* its third port with efficiency 3
C21_Witness ==
    /\ Built /\ n.transmission_losses > 0
    /\ n.df["Link"]["link"].bus0 = "bus"
    /\ n.df["Link"]["link"].bus2 = "bus2"
    /\ n.df["Link"]["link"].efficiency = 2
    /\ \E r \in BalanceRows :
          /\ r.i = "bus2" /\ r.sn = 1
          /\ [coef |-> 6, var |-> VarRef("Link-p", 1, "link")] \in r.terms
    /\ \E r \in BalanceRows :
          /\ r.i = "bus" /\ r.sn = 1
          /\ [coef |-> 0 - 1, var |-> VarRef("Line-loss", 1, "line")] \in r.terms
          /\ [coef |-> 0 - 2, var |-> VarRef("Link-p", 1, "link")] \in r.terms


(***************************************************************************)
(* Claims on the rows of the loss approximation.                           *)
(***************************************************************************)
\* the capacity s_max_pu * s_nom_max the approximation of line a spans
LossSpan(a) ==
    n.df["Line"][a].s_max_pu
       * (IF n.df["Line"][a].s_nom_extendable THEN n.df["Line"][a].s_nom_max
          ELSE n.df["Line"][a].s_nom)
\* the rows of line a at snapshot t with the name `name`
LossRowsAt(name, t, a) ==
    {r \in m.constraints : r.name = name /\ r.sn = t /\ r.i = a}
\* the coefficient of variable v in row r, as a numerator over r.den
Coef(r, v) ==
    LET tms == {tm \in r.terms : tm.var = v}
    IN SumSet(tms, [tm \in tms |-> tm.coef])
\* row r holds at the point (flow, loss) of line a at snapshot t
HoldsAt(r, t, a, flow, loss) ==
    LET lhs == Coef(r, VarRef("Line-loss", t, a)) * loss
                 + Coef(r, VarRef("Line-s", t, a)) * flow
    IN IF r.sense = "<=" THEN lhs <= r.rhs ELSE lhs >= r.rhs
\* the one upper bound loss <= r * (s_max_pu * s_nom_max)^2
UpperBoundRow(t, a) ==
    LET rows == LossRowsAt("Line-loss_upper", t, a)
    IN /\ Cardinality(rows) = 1
       /\ \A r \in rows :
             /\ r.sense = "<="
             /\ RowVars(r) = {VarRef("Line-loss", t, a)}
             /\ Coef(r, VarRef("Line-loss", t, a)) = r.den
             /\ r.rhs = r.den * n.df["Line"][a].r_pu_eff
                          * LossSpan(a) * LossSpan(a)
\* the one tangent loss >= slope_k * (-sign * flow) + offset_k with
\* p_k = k / tangents * span, slope_k = 2 * r * p_k, offset_k = -r * p_k^2
TangentRow(t, a, kk, sign) ==
    LET tangents == n.transmission_losses
        rows == LossRowsAt("Line-loss_tangents-" \o ToString(kk) \o "-"
                              \o ToString(sign), t, a)
        res == n.df["Line"][a].r_pu_eff
    IN /\ Cardinality(rows) = 1
       /\ \A r \in rows :
             /\ r.sense = ">="
             /\ RowVars(r) \subseteq
                   {VarRef("Line-loss", t, a), VarRef("Line-s", t, a)}
             /\ Coef(r, VarRef("Line-loss", t, a)) = r.den
             /\ Coef(r, VarRef("Line-s", t, a)) * tangents
                   = r.den * sign * 2 * res * kk * LossSpan(a)
             /\ r.rhs * tangents * tangents
                   = 0 - r.den * res * kk * kk * LossSpan(a) * LossSpan(a)

\* C22: for every line and snapshot of a build with transmission losses,
\* define_loss_constraints emits exactly one upper bound
\* loss <= r * (s_max_pu * s_nom_max)^2 and exactly 2 * tangents tangent
\* rows, one for each k in 1..tangents and each direction of the flow, with
\* slope 2 * r * p_k and offset -r * p_k^2; every point (f, r * f^2) with
\* |f| <= s_max_pu * s_nom_max satisfies all of them.
C22_LossApproximation ==
    Built /\ n.transmission_losses > 0 =>
        \A a \in Lines : \A t \in 1..n.T :
            LET rows == {r \in LossRows : r.sn = t /\ r.i = a}
            IN /\ UpperBoundRow(t, a)
               /\ \A kk \in 1..n.transmission_losses : \A sign \in {0 - 1, 1} :
                     TangentRow(t, a, kk, sign)
               /\ Cardinality(rows) = 1 + 2 * n.transmission_losses
               /\ \A f \in (0 - LossSpan(a))..LossSpan(a) : \A r \in rows :
                     HoldsAt(r, t, a, f, n.df["Line"][a].r_pu_eff * f * f)

\* a built network with two tangents and a line of resistance 1 and span 2:
\* the tangent at p_1 = 1 towards bus1 reads loss - 2 * flow >= -1
C22_Witness ==
    /\ Built /\ n.transmission_losses = 2
    /\ \E a \in Lines :
          /\ n.df["Line"][a].r_pu_eff = 1 /\ LossSpan(a) = 2
          /\ \E r \in LossRowsAt("Line-loss_tangents-1--1", 1, a) :
                /\ Coef(r, VarRef("Line-s", 1, a)) = 0 - 2 * r.den
                /\ r.rhs = 0 - r.den


(***************************************************************************)
(* Networks: up to four lines over three buses.                            *)
(***************************************************************************)
\* the line "l1" from "bus" to "bus1", with or without "l2" from "bus1" to
\* "bus2", "l3" between "bus" and "bus2" in either direction and "l4" from
\* "bus1" to "bus" next to "l1"; the buses are all AC or all DC; with
\* investment periods "l3" is active in period 1 only, in period 2 only
\* or in both
InitMesh ==
    \E l2 \in BOOLEAN, l3 \in {"none", "to", "from"}, l4 \in BOOLEAN,
       carrier \in {"AC", "DC"}, multi \in BOOLEAN,
       split \in 1..(MaxSns - 1),
       years \in {<<1, 1>>, <<1, Inf>>, <<2, Inf>>}, v_nom \in {1, 2} :
        LET line(b0, b1) == [LineDefaults EXCEPT
                               !.bus0 = b0, !.bus1 = b1, !.s_nom = 1,
                               !.x = v_nom * v_nom,
                               !.r = 2 * v_nom * v_nom]
            lines ==
                ("l1" :> [line("bus", "bus1") EXCEPT
                            !.x = 2 * v_nom * v_nom,
                            !.r = v_nom * v_nom])
                @@ (IF l2 THEN "l2" :> line("bus1", "bus2") ELSE << >>)
                @@ (IF l3 = "none" THEN << >>
                    ELSE "l3" :> [(IF l3 = "to" THEN line("bus", "bus2")
                                   ELSE line("bus2", "bus")) EXCEPT
                                    !.build_year = IF multi THEN years[1] ELSE 0,
                                    !.lifetime = IF multi THEN years[2] ELSE Inf])
                @@ (IF l4 THEN "l4" :> line("bus1", "bus") ELSE << >>)
            buses == [b \in {"bus", "bus1", "bus2"} |->
                        [BusDefaults EXCEPT !.carrier = carrier,
                                            !.v_nom = v_nom]]
        IN /\ multi \/ (split = 1 /\ years = <<1, Inf>>)
           /\ l3 = "none" => years = <<1, Inf>>
           /\ Start([EmptyNetwork EXCEPT
                       !.T = MaxSns, !.multi_invest = multi,
                       !.period = Periods(MaxSns, IF multi THEN split ELSE MaxSns),
                       !.df["Line"] = lines, !.df["Bus"] = buses])

SpecMesh == InitMesh /\ [][NextBuild]_vars

(***************************************************************************)
(* Claims on the Kirchhoff voltage law.                                    *)
(***************************************************************************)
KvlRows == {r \in m.constraints : r.name = "Kirchhoff-Voltage-Law"}
\* the number of independent cycles of the sub-network `sub` of period p
CycleRank(p, sub) ==
    Cardinality(sub_branches(p, sub)) - Cardinality(sub) + 1
\* the per-unit reactance of an AC sub-network, the resistance otherwise
Weight(l) ==
    IF n.df["Bus"][n.df["Line"][l].bus0].carrier = "AC"
    THEN n.df["Line"][l].x_pu_eff ELSE n.df["Line"][l].r_pu_eff
\* the entry of the cycle matrix row r is built on, for branch l
CycleEntry(r, l) ==
    Coef(r, VarRef("Line-s", r.sn, l)) \div (kvl_scale * Weight(l))
\* row r states that the weighted flows around one cycle of `sub` add up
\* to zero: its entries are 1, -1 or 0, not all 0, and flow along them is
\* conserved at every bus
AroundCycle(r, p, sub) ==
    LET E == sub_branches(p, sub)
    IN /\ r.sense = "=" /\ r.rhs = 0
       /\ RowVars(r) \subseteq {VarRef("Line-s", r.sn, l) : l \in E}
       /\ RowVars(r) # {}
       /\ \A l \in E :
             /\ CycleEntry(r, l) \in {0 - 1, 0, 1}
             /\ Coef(r, VarRef("Line-s", r.sn, l))
                   = kvl_scale * Weight(l) * CycleEntry(r, l)
       /\ \A b \in sub :
             LET out == {l \in E : n.df["Line"][l].bus0 = b}
                 in == {l \in E : n.df["Line"][l].bus1 = b}
             IN SumSet(out, [l \in out |-> CycleEntry(r, l)])
                  = SumSet(in, [l \in in |-> CycleEntry(r, l)])
\* two rows are built on cycles that are neither equal nor opposite
Independent(r1, r2, E) ==
    /\ \E l \in E : CycleEntry(r1, l) # CycleEntry(r2, l)
    /\ \E l \in E : CycleEntry(r1, l) # 0 - CycleEntry(r2, l)

\* C23: for every sub-network of passive branches of the topology of the
\* period (of the network, without investment periods) and every snapshot
\* of the period, one equality per cycle of a cycle basis states that the
\* flows around the cycle, weighted by the reactance for an AC sub-network
\* and by the resistance otherwise, add up to 0; a sub-network without
\* cycles has no equality and a build without any cycle has no
\* Kirchhoff-Voltage-Law row; each period uses its active branches only.
C23_KirchhoffVoltageLaw ==
    Built =>
        /\ \A p \in kvl_periods : \A t \in kvl_snapshots(p) :
              \A sub \in sub_networks(p) :
                 LET rows == {r \in KvlRows :
                                /\ r.sn = t
                                /\ \E v \in RowVars(r) :
                                      n.df["Line"][v.i].bus0 \in sub}
                 IN /\ Cardinality(rows) = CycleRank(p, sub)
                    /\ \A r \in rows : AroundCycle(r, p, sub)
                    /\ \A r1 \in rows : \A r2 \in rows \ {r1} :
                          Independent(r1, r2, sub_branches(p, sub))
        /\ \A r \in KvlRows :
              \E p \in kvl_periods :
                 /\ r.sn \in kvl_snapshots(p)
                 /\ \E sub \in sub_networks(p) : AroundCycle(r, p, sub)

\* a built multi-period network of DC buses whose line "l3" closes the
\* triangle in period 2 only: the snapshots of period 1 have the row of
\* the cycle "l1", "l4" alone, those of period 2 one more row with "l3"
C23_Witness ==
    /\ Built /\ n.multi_invest
    /\ DOMAIN n.df["Line"] = {"l1", "l2", "l3", "l4"}
    /\ n.df["Line"]["l3"].build_year = 2
    /\ n.df["Bus"]["bus"].carrier = "DC"
    /\ Cardinality({r \in KvlRows : r.sn = 1}) = 1
    /\ Cardinality({r \in KvlRows : r.sn = n.T}) = 2
    /\ \E r \in KvlRows :
          /\ r.sn = n.T
          /\ Coef(r, VarRef("Line-s", n.T, "l3")) \in {0 - 200000, 200000}


(***************************************************************************)
(* Networks: two generators of any extendable / committable / modular kind.*)
(***************************************************************************)
\* two generators on one bus, each fixed or extendable, committable or
\* not, with module size 0 or 1, and a fixed or extendable line; the
\* capacity of the first generator may be set by the column p_nom_set, or
\* its dispatch at the first snapshot by the series p_set
InitMix ==
    \E ext1 \in BOOLEAN, com1 \in BOOLEAN, mod1 \in {0, 1},
       ext2 \in BOOLEAN, com2 \in BOOLEAN, mod2 \in {0, 1},
       ext_line \in BOOLEAN, fixed \in {"", "p_nom", "p"} :
        LET gen(ext, com, mod, p_nom_set) ==
                [GeneratorDefaults EXCEPT
                    !.p_nom = 1, !.p_nom_extendable = ext,
                    !.committable = com, !.p_nom_mod = mod,
                    !.p_nom_max = MaxVal]
                @@ (IF fixed = "p_nom" THEN [p_nom_set |-> p_nom_set]
                    ELSE << >>)
            gens == ("gen1" :> gen(ext1, com1, mod1, 1))
                    @@ ("gen2" :> gen(ext2, com2, mod2, NaN))
            p_set == IF fixed = "p"
                     THEN <<"Generator", "p">> :>
                            ("gen1" :> [t \in 1..NSns |->
                                          IF t = 1 THEN 1 ELSE NaN])
                     ELSE << >>
            lines == "line" :> [LineDefaults EXCEPT
                                  !.s_nom = 1, !.s_nom_extendable = ext_line,
                                  !.s_nom_max = MaxVal]
            buses == ("bus" :> BusDefaults) @@ ("bus1" :> BusDefaults)
        IN Start([EmptyNetwork EXCEPT
                    !.df["Generator"] = gens, !.df["Line"] = lines,
                    !.df["Bus"] = buses, !.pnl_set = p_set])

SpecMix == InitMix /\ [][NextBuild]_vars

(***************************************************************************)
(* Claims on the partition of the dispatch bounds.                         *)
(***************************************************************************)
\* the four routines that bound the dispatch, by the prefix and the suffix
\* of the names of their rows
DispatchRoutines ==
    {[prefix |-> "-fix-non-comm-", suffix |-> ""],
     [prefix |-> "-ext-non-comm-", suffix |-> ""],
     [prefix |-> "-com-mod-", suffix |-> "-committable-modular"],
     [prefix |-> "-com-non-mod-fix-", suffix |-> ""]}
\* the routines with a row of the given bound on the dispatch variable
\* attr of asset a of component c at snapshot t
BoundedBy(c, attr, a, t, bound) ==
    {R \in DispatchRoutines :
        \E r \in m.constraints :
            /\ r.name = c \o R.prefix \o attr \o bound \o R.suffix
            /\ r.sn = t /\ r.i = a
            /\ VarRef(c \o "-" \o attr, t, a) \in RowVars(r)}

\* C24: whatever its extendable flag, committable flag and module size are
\* and whatever the other assets of its type are, the dispatch variable of
\* every asset has its lower and its upper bound from exactly one of the
\* routines fix-non-comm, ext-non-comm, com-mod and com-non-mod-fix.
C24_OneDispatchRoutine ==
    Built =>
        \A ca \in {<<"Generator", "p">>, <<"Line", "s">>} :
            \A a \in DOMAIN n.df[ca[1]] : \A t \in 1..n.T :
                /\ Cardinality(BoundedBy(ca[1], ca[2], a, t, "-lower")) = 1
                /\ BoundedBy(ca[1], ca[2], a, t, "-upper")
                      = BoundedBy(ca[1], ca[2], a, t, "-lower")


(***************************************************************************)
(* Claims on the status before a later window.                             *)
(***************************************************************************)
\* the stored status of asset a at the snapshot just before the window
StoredOnBefore(a) == n.pnl_status[a][n.sns0 - 1] # 0
\* the number of snapshots just before the window at which the stored
\* status of asset a was on / off without interruption
ConsecutiveBefore(a, on) ==
    Cardinality({u \in 1..(n.sns0 - 1) :
                    \A x \in u..(n.sns0 - 1) :
                        (n.pnl_status[a][x] # 0) <=> (on = 1)})
\* the transition rows of asset a at the first snapshot of the window are
\* seeded: start-up with -1 and shut-down with +1
SeededUp(a) ==
    \E R \in CommittableRoutines :
        /\ \E r \in RoutineRows(R, "transition-start-up", a, n.sns0) :
              r.rhs = 0 - 1
        /\ \E r \in RoutineRows(R, "transition-shut-down", a, n.sns0) :
              r.rhs = 1

\* C25: when the window starts after the first snapshot, the transition
\* rows of a committable asset are seeded with -1 / +1 at the first
\* snapshot of the window, and the asset counts as initially up, if and
\* only if its stored status just before the window is on; it counts as
\* initially down if and only if that status is off; this for every
\* min_up_time and min_down_time, 0 included; the derived up_time_before
\* and down_time_before are the consecutive on / off snapshots before the
\* window, capped at min_up_time / min_down_time.
C25_InitialStatusFromStoredStatus ==
    (BothCommittableRoutinesDone /\ n.sns0 # 1) =>
        \A a \in CommittableWithTransitions :
            LET g == n.df["Generator"][a]
            IN /\ SeededUp(a) <=> StoredOnBefore(a)
               /\ initially_up("Generator", a) <=> StoredOnBefore(a)
               /\ initially_down("Generator", a) <=> ~StoredOnBefore(a)
               /\ before_set("Generator", a).up
                    = Min({ConsecutiveBefore(a, 1), g.min_up_time})
               /\ before_set("Generator", a).down
                    = Min({ConsecutiveBefore(a, 0), g.min_down_time})


(***************************************************************************)
(* Claims on the number of modules that are on.                            *)
(***************************************************************************)
CommitmentVars ==
    {v \in AllLabels(m) :
        v.v \in {"Generator-status", "Generator-start_up",
                 "Generator-shut_down"}}
\* the rows over commitment variables only: the upper limits, the
\* transition rows, the minimum up and down time rows and the must-stay rows
CommitmentRows ==
    {r \in m.constraints : r.terms # {} /\ RowVars(r) \subseteq CommitmentVars}
\* some point of the commitment variables meets their bounds and every
\* commitment row, with v modules of asset a on at snapshot t
Admits(a, t, v) ==
    \E s \in [CommitmentVars -> n.vals] :
        /\ s[VarRef("Generator-status", t, a)] = v
        /\ \A x \in CommitmentVars : InBounds(m, x, s[x])
        /\ \A r \in CommitmentRows : Sat(r, s)
\* the fixed committable assets with two or more installed modules
SeveralModules ==
    {a \in Committable :
        LET g == n.df["Generator"][a]
        IN /\ ~g.p_nom_extendable /\ g.p_nom_mod > 0
           /\ g.p_nom % g.p_nom_mod = 0 /\ g.p_nom \div g.p_nom_mod >= 2}

\* C26: for a committable modular asset with N >= 2 installed modules the
\* commitment rows (upper limits, transition, minimum up and down time,
\* must-stay) admit every status 0..N at every snapshot after the first,
\* also with min_up_time >= 1 or min_down_time >= 1.
C26_ModuleCountIsTheOnlyLimit ==
    pc = "built" =>
        \A a \in SeveralModules : \A t \in (n.sns0 + 1)..n.T :
            LET g == n.df["Generator"][a]
            IN \A v \in 0..(g.p_nom \div g.p_nom_mod) : Admits(a, t, v)


(***************************************************************************)
(* Switching (pypsa/logic.py).  The network carries network.switches, the  *)
(* rows in index order, and the tables the routines derive from it.  The   *)
(* bus table network.buses is n.df["Bus"].                                 *)
(***************************************************************************)
\* the one-port and branch components of the networks below, which hold no
\* shunt impedance and no transformer
one_port_components == {"Generator", "Load", "StorageUnit", "Store"}
branch_components == {"Line", "Link"}
\* the bus columns of the elements of c that the routines look at
bus_columns(c) == IF c \in branch_components THEN {"bus0", "bus1"} ELSE {"bus"}
\* the table cells that refer to a bus: component, element, column
bus_cells(net) ==
    UNION {UNION {{<<c, a, f>> : f \in bus_columns(c)} : a \in DOMAIN net.df[c]} :
             c \in one_port_components \cup branch_components}

\* network.switches.index and the row of a switch
switches_index(net) == {net.switches[i].name : i \in DOMAIN net.switches}
switches_loc(net, switch) ==
    net.switches[CHOOSE i \in DOMAIN net.switches : net.switches[i].name = switch]
\* the rows of network.buses without those of the buses in S
buses_drop(buses, S) == [b \in DOMAIN buses \ S |-> buses[b]]

is_switch_connecting_buses(net, bus0, bus1) ==
    \E i \in DOMAIN net.switches :
        /\ net.switches[i].bus0 \in {bus0, bus1}
        /\ net.switches[i].bus1 \in {bus0, bus1}

\* pd.Index.drop_duplicates: the first occurrence of every entry
RECURSIVE drop_duplicates(_)
drop_duplicates(s) ==
    IF s = << >> THEN << >>
    ELSE LET rest == drop_duplicates(SubSeq(s, 1, Len(s) - 1))
         IN IF \E i \in DOMAIN rest : rest[i] = s[Len(s)] THEN rest
            ELSE Append(rest, s[Len(s)])
\* the buses at the bus1 end of a switch, then those at the bus0 end
buses_with_switches(net) ==
    drop_duplicates([i \in DOMAIN net.switches |-> net.switches[i].bus1]
                      \o [i \in DOMAIN net.switches |-> net.switches[i].bus0])

\* the buses joined to the buses of S by switches, open or closed
RECURSIVE switch_connected(_, _)
switch_connected(net, S) ==
    LET sw == net.switches
        more == S \cup {sw[i].bus1 : i \in {x \in DOMAIN sw : sw[x].bus0 \in S}}
                  \cup {sw[i].bus0 : i \in {x \in DOMAIN sw : sw[x].bus1 \in S}}
    IN IF more = S THEN S ELSE switch_connected(net, more)
\* csgraph.connected_components over the switches: the components are
\* numbered in the order of their first bus; the label of bus b
bus_connected_labels(net) ==
    LET order == buses_with_switches(net)
        pos(b) == CHOOSE i \in DOMAIN order : order[i] = b
        first(b) == Min({pos(x) : x \in switch_connected(net, {b})})
        with_switches == {order[i] : i \in DOMAIN order}
    IN [b \in with_switches |->
          "bus_connected"
            \o ToString(Cardinality({first(x) : x \in {y \in with_switches :
                                                         first(y) < first(b)}}))]

\* the only logical buses are added to network.buses again when not all of
\* them are there; when some of them are there the index is duplicated and
\* the routine raises; the network it leaves and the error it raises, if any.
\* Before find_only_logical_buses ran, the network has no attribute
\* buses_only_logical and the routine leaves it as it is
check_for_buses_only_logical_and_add_them_to_buses(net) ==
    LET only_logical == DOMAIN net.buses_only_logical
        buses == DOMAIN net.df["Bus"]
    IN IF ~net.has_buses_only_logical \/ only_logical \subseteq buses
       THEN [net |-> net, err |-> ""]
       ELSE IF only_logical \cap buses # {}
       THEN [net |-> net, err |-> "Exception"]
       ELSE [net |-> [net EXCEPT !.df["Bus"] = @ @@ net.buses_only_logical],
             err |-> ""]


\* the work of determine_logical_topology once the only logical buses are
\* back in network.buses
determine_checked(net1) ==
    LET order == buses_with_switches(net1)
        labels == bus_connected_labels(net1)
        first_of(l) == order[Min({i \in DOMAIN order : labels[order[i]] = l})]
    IN [net1 EXCEPT
          !.buses_connected =
              [l \in {labels[b] : b \in DOMAIN labels} |->
                  net1.df["Bus"][first_of(l)]],
          !.buses_disconnected = [b \in DOMAIN labels |-> net1.df["Bus"][b]],
          !.switches = [i \in DOMAIN net1.switches |->
                          [net1.switches[i] EXCEPT
                             !.bus_connected = labels[net1.switches[i].bus0]]]]
\* a routine that follows a call `r` runs on the network r left, unless r
\* raised
raised(r) == r.err # ""
returned(net) == [net |-> net, err |-> ""]
\* network.buses.loc[network.switches.bus1] and .loc[network.switches.bus0]
\* raise KeyError when an end of a switch is no bus of the network
switch_end_is_no_bus(net) ==
    \E i \in DOMAIN net.switches :
        \/ net.switches[i].bus1 \notin DOMAIN net.df["Bus"]
        \/ net.switches[i].bus0 \notin DOMAIN net.df["Bus"]
determine_after(checked) ==
    IF raised(checked) THEN checked
    ELSE IF switch_end_is_no_bus(checked.net)
    THEN [net |-> checked.net, err |-> "KeyError"]
    ELSE returned(determine_checked(checked.net))
determine_logical_topology(net) ==
    determine_after(check_for_buses_only_logical_and_add_them_to_buses(net))

\* the work of find_only_logical_buses once the only logical buses are back
find_only_logical_checked(net1) ==
    LET order == buses_with_switches(net1)
        with_switches == {order[i] : i \in DOMAIN order}
        electrical_buses ==
            {b \in with_switches :
                \E cell \in bus_cells(net1) :
                    net1.df[cell[1]][cell[2]][cell[3]] = b}
        only_logical == with_switches \ electrical_buses
    IN [net1 EXCEPT
          !.buses_only_logical = [b \in only_logical |-> net1.df["Bus"][b]],
          !.has_buses_only_logical = TRUE,
          !.df["Bus"] = buses_drop(@, only_logical)]
find_only_logical_after(checked) ==
    IF raised(checked) THEN checked
    ELSE IF switch_end_is_no_bus(checked.net)
    THEN [net |-> checked.net, err |-> "KeyError"]
    ELSE returned(find_only_logical_checked(checked.net))
find_only_logical_buses(net) ==
    find_only_logical_after(
        check_for_buses_only_logical_and_add_them_to_buses(net))

\* c.list_name, as the parts str.split(list_name, "_") gives
list_name(c) ==
    CASE c = "Generator" -> <<"generators">>
      [] c = "Load" -> <<"loads">>
      [] c = "StorageUnit" -> <<"storage", "units">>
      [] c = "Store" -> <<"stores">>
      [] c = "Line" -> <<"lines">>
      [] c = "Link" -> <<"links">>
\* getattr(network, name) is the table of the component whose list name
\* is `name`, and raises when there is none
hasattr(name) ==
    \E c \in one_port_components \cup branch_components : list_name(c) = <<name>>
getattr(name) ==
    CHOOSE c \in one_port_components \cup branch_components :
        list_name(c) = <<name>>

\* network.iterate_components(components): the components of the sequence
\* whose table is not empty
RECURSIVE iterate_components(_, _)
iterate_components(net, components) ==
    IF components = << >> THEN << >>
    ELSE (IF DOMAIN net.df[Head(components)] = {} THEN << >>
          ELSE <<Head(components)>>)
         \o iterate_components(net, Tail(components))

\* the columns of switches_connections for component c: the bus column of
\* the element, the list name and the end of the switch, as the parts
\* str.split(column, "_") gives, each with the key it was built from
connection_columns(c) ==
    LET column(el_bus, log_bus) ==
            [parts |-> <<el_bus>> \o list_name(c) \o <<log_bus>>,
             c |-> c, el_bus |-> el_bus, log_bus |-> log_bus]
    IN IF c \in branch_components
       THEN <<column("bus0", "bus0"), column("bus0", "bus1"),
              column("bus1", "bus0"), column("bus1", "bus1")>>
       ELSE <<column("bus", "bus0"), column("bus", "bus1")>>

\* the order in which the set network.branch_components is iterated; every
\* column of a branch component names a table, so that it has no effect
branch_order == <<"Line", "Link">>

\* switches_connections: the columns of the branch components, then those
\* of the one-port components in the order the set is iterated in, and for
\* every switch and column the elements whose bus column is the switch's end
find_switches_connections(net) ==
    LET components == iterate_components(net, branch_order)
                        \o iterate_components(net, net.one_port_order)
        built == Flatten([i \in DOMAIN components |->
                            connection_columns(components[i])])
        found(switch, col) ==
            {a \in DOMAIN net.df[col.c] :
                net.df[col.c][a][col.el_bus] = switches_loc(net, switch)[col.log_bus]}
    IN [net EXCEPT
          !.switches_connections =
              [columns |-> [i \in DOMAIN built |-> built[i].parts],
               loc |-> [switch \in switches_index(net) |->
                          [i \in DOMAIN built |-> found(switch, built[i])]]]]

\* network.switches with the status of the switches of S set
set_status(net, S, status) ==
    [i \in DOMAIN net.switches |->
        IF net.switches[i].name \in S
        THEN [net.switches[i] EXCEPT !.status = status]
        ELSE net.switches[i]]

\* the inner loop of close_switches and open_switches from column i on: the
\* column name is split, and the cells of the listed elements are set to the
\* bus_connected of the switch when closing and to the end log_bus of the
\* switch when opening.  The right-hand side is evaluated first: opening
\* raises KeyError when log_bus is no column of network.switches, closing
\* raises AttributeError when the network has no table `component`
RECURSIVE rename_columns(_, _, _, _)
rename_columns(net, switch, i, closing) ==
    IF i > Len(net.switches_connections.columns) THEN returned(net)
    ELSE LET el_bus_component_log_bus == net.switches_connections.columns[i]
             switch_con == net.switches_connections.loc[switch][i]
             el_bus == el_bus_component_log_bus[1]
             component == el_bus_component_log_bus[2]
             log_bus == el_bus_component_log_bus[3]
             old == net.df[getattr(component)]
             value == IF closing THEN switches_loc(net, switch).bus_connected
                      ELSE switches_loc(net, switch)[log_bus]
             renamed == [a \in DOMAIN old |->
                           IF a \in switch_con
                           THEN [f \in DOMAIN old[a] |->
                                   IF f = el_bus THEN value ELSE old[a][f]]
                           ELSE old[a]]
         IN IF ~closing /\ log_bus \notin {"bus0", "bus1"}
            THEN [net |-> net, err |-> "KeyError"]
            ELSE IF ~hasattr(component)
            THEN [net |-> net, err |-> "AttributeError"]
            ELSE rename_columns([net EXCEPT !.df[getattr(component)] = renamed],
                                switch, i + 1, closing)

\* the loop over the switches: the status is set, then the cells renamed;
\* the switches that follow a switch whose renaming raised are not reached
RECURSIVE rename_switches(_, _, _)
RECURSIVE rename_following(_, _, _)
rename_following(done, switches, closing) ==
    IF raised(done) THEN done ELSE rename_switches(done.net, switches, closing)
rename_switches(net, switches, closing) ==
    IF switches = << >> THEN returned(net)
    ELSE rename_following(
            rename_columns(
                [net EXCEPT !.switches = set_status(net, {Head(switches)},
                                                    IF closing THEN 1 ELSE 0)],
                Head(switches), 1, closing),
            Tail(switches), closing)

\* the ends of the switches of S
switch_ends(net, S) ==
    {switches_loc(net, s).bus0 : s \in S} \cup {switches_loc(net, s).bus1 : s \in S}
\* the bus table after close_switches renamed the cells: the bus_connected
\* of the switches are added, their ends dropped
close_buses(net1, S) ==
    LET added == {switches_loc(net1, s).bus_connected : s \in S}
    IN [net1 EXCEPT
          !.df["Bus"] = buses_drop(
              @ @@ [b \in added |-> net1.buses_connected[b]],
              switch_ends(net1, S))]
close_after(done, S) ==
    IF raised(done) THEN done ELSE returned(close_buses(done.net, S))
\* the network close_switches leaves and the error it raises, if any;
\* `switches` is a sequence of switch names
close_switches(net, switches) ==
    close_after(rename_switches(net, switches, TRUE),
                {switches[i] : i \in DOMAIN switches})

\* faulty variant: the bus_connected of an opened switch is removed even
\* when another switch that shares it is closed
open_buses_without_unanimity(net1, S) ==
    LET buses_that_do_not_exist ==
            (switch_ends(net1, S) \ DOMAIN net1.df["Bus"])
               \ DOMAIN net1.buses_only_logical
        to_drop == {switches_loc(net1, s).bus_connected : s \in S}
    IN [net1 EXCEPT
          !.df["Bus"] = buses_drop(
              @ @@ [b \in buses_that_do_not_exist |->
                       net1.buses_disconnected[b]], to_drop)]
\* the bus table after open_switches renamed the cells: the ends that are
\* no bus and not only logical are added, the bus_connected none of whose
\* switches is closed are dropped
open_buses(net1, S) ==
    LET buses_that_do_not_exist ==
            (switch_ends(net1, S) \ DOMAIN net1.df["Bus"])
               \ DOMAIN net1.buses_only_logical
        n_closed(bus) ==
            Cardinality({i \in DOMAIN net1.switches :
                           net1.switches[i].bus_connected = bus
                             /\ net1.switches[i].status = 1})
        to_drop == {bus \in {switches_loc(net1, s).bus_connected : s \in S} :
                       n_closed(bus) = 0}
    IN [net1 EXCEPT
          !.df["Bus"] = buses_drop(
              @ @@ [b \in buses_that_do_not_exist |->
                       net1.buses_disconnected[b]], to_drop)]
open_after(done, S) ==
    IF raised(done) THEN done ELSE returned(open_buses(done.net, S))
open_switches(net, switches) ==
    open_after(rename_switches(net, switches, FALSE),
               {switches[i] : i \in DOMAIN switches})

\* network.switches.loc[mask].index: the names of the switches of S in the
\* order of the table
RECURSIVE switches_in(_, _)
switches_in(rows, S) ==
    IF rows = << >> THEN << >>
    ELSE (IF Head(rows).name \in S THEN <<Head(rows).name>> ELSE << >>)
         \o switches_in(Tail(rows), S)
with_status(net, status) ==
    switches_in(net.switches,
                {net.switches[i].name :
                   i \in {x \in DOMAIN net.switches :
                            net.switches[x].status = status}})

\* switching closes the closed switches, then opens the open ones
switching_open(closed) ==
    IF raised(closed) THEN closed
    ELSE open_switches(closed.net, with_status(closed.net, 0))
switching(net) == switching_open(close_switches(net, with_status(net, 1)))

\* the calls that follow determine_logical_topology in init_switches and in
\* add_switch
find_switches_connections_after(found) ==
    IF raised(found) THEN found
    ELSE returned(find_switches_connections(found.net))
find_only_logical_buses_after(determined) ==
    IF raised(determined) THEN determined
    ELSE find_only_logical_buses(determined.net)
switching_after(derived) ==
    IF raised(derived) THEN derived ELSE switching(derived.net)

\* init_switches: the network it leaves and the error it raises, if any
init_switches(net) ==
    IF \E i \in DOMAIN net.switches :
          is_switch_connecting_buses(net, net.switches[i].bus0,
                                     net.switches[i].bus0)
    THEN [net |-> net, err |-> "AssertionError"]
    ELSE switching_after(
            find_switches_connections_after(
                find_only_logical_buses_after(
                    determine_logical_topology(net))))

\* network.switches.status = switches_status_before, when the network had
\* switches before
restore_status(derived, switches_status_before, name, status) ==
    IF raised(derived) \/ Len(derived.net.switches) <= 1 THEN derived
    ELSE returned(
            [derived.net EXCEPT
               !.switches =
                   [i \in DOMAIN @ |->
                       [derived.net.switches[i] EXCEPT
                          !.status =
                              IF derived.net.switches[i].name = name THEN status
                              ELSE switches_status_before[
                                       derived.net.switches[i].name]]]])
\* add_switch from the assertion on the buses on, `opened` being what
\* open_switches left
add_switch_opened(opened, switches_status_before, name, bus0, bus1, status) ==
    IF raised(opened) THEN opened
    ELSE IF ~(bus0 \in DOMAIN opened.net.df["Bus"]
                /\ bus1 \in DOMAIN opened.net.df["Bus"])
    THEN [net |-> opened.net, err |-> "AssertionError"]
    ELSE switching_after(
            restore_status(
                find_switches_connections_after(
                    find_only_logical_buses_after(
                        determine_logical_topology(
                            [opened.net EXCEPT
                               !.switches =
                                   Append(@, [name |-> name, bus0 |-> bus0,
                                              bus1 |-> bus1, status |-> status,
                                              bus_connected |-> "NaN"])]))),
                switches_status_before, name, status))

\* add_switch: the network it leaves and the error it raises, if any
add_switch(net, name, bus0, bus1, status) ==
    IF \/ name \in switches_index(net)
       \/ bus0 = bus1
       \/ is_switch_connecting_buses(net, bus0, bus1)
    THEN [net |-> net, err |-> "AssertionError"]
    ELSE add_switch_opened(
            IF Len(net.switches) # 0
            THEN open_switches(net, switches_in(net.switches, switches_index(net)))
            ELSE returned(net),
            [s \in switches_index(net) |-> switches_loc(net, s).status],
            name, bus0, bus1, status)

(***************************************************************************)
(* Switching: the calls on a network.                                      *)
(***************************************************************************)
\* largest number of switches of a network
MaxSwitches == 2
\* largest number of calls of the routines init_switches is made of
MaxCalls == 2
\* the orders in which the set network.one_port_components may be
\* iterated; the place of "Store", whose table is empty in the networks
\* below and gives no column, is left out
OnePortOrders ==
    {Append(o, "Store") :
        o \in {x \in [1..3 -> one_port_components \ {"Store"}] :
                  \A i \in 1..3 : \A j \in 1..3 : x[i] = x[j] => i = j}}
SwitchNames == {"s1", "s2"}
\* the buses a new switch is asked to join; "e" is not a bus of the network
SwitchEnds == {"a", "b", "c", "e"}

\* the call `r` leaves a network and an error, having logged msg first; a
\* failed assertion leaves a network the caller goes on with, any other
\* error leaves the tables half renamed and the calls end
Switched(r, msg) ==
    /\ n' = r.net /\ err' = r.err /\ n_prev' = n /\ log' = {msg}
    /\ pc' = IF r.err = "" THEN "initiated"
             ELSE IF r.err = "AssertionError" THEN pc ELSE "error"
    /\ UNCHANGED <<m, k, sol, builds, n_built, m_prev, m_start, calls>>

InitSwitches ==
    /\ pc = "idle"
    /\ Switched(init_switches(n), "Initiating switches")

AddSwitch ==
    /\ pc = "initiated" \/ (pc = "idle" /\ n.switches = << >>)
    /\ Len(n.switches) < MaxSwitches
    /\ \E name \in SwitchNames, bus0 \in SwitchEnds, bus1 \in SwitchEnds,
          status \in {0, 1} :
          Switched(add_switch(n, name, bus0, bus1, status), "adding switch")

CloseSwitches ==
    /\ pc = "initiated"
    /\ \E S \in SUBSET switches_index(n) :
          Switched(close_switches(n, switches_in(n.switches, S)),
                   "closing switches")

OpenSwitches ==
    /\ pc = "initiated"
    /\ \E S \in SUBSET switches_index(n) :
          Switched(open_switches(n, switches_in(n.switches, S)),
                   "opening switches")

Switching ==
    /\ pc = "initiated"
    /\ Switched(switching(n), "switching all switches")

\* a call of one of the routines init_switches is made of, on a network
\* whose switches are initiated or not: it leaves a network and an error,
\* having logged msgs first; the network is as initiated as it was
Called(r, msgs) ==
    /\ calls < MaxCalls /\ calls' = calls + 1
    /\ n' = r.net /\ err' = r.err /\ n_prev' = n /\ log' = msgs
    /\ pc' = IF r.err = "" THEN pc ELSE "error"
    /\ UNCHANGED <<m, k, sol, builds, n_built, m_prev, m_start>>

\* what check_for_buses_only_logical_and_add_them_to_buses logs first
check_logged(net) ==
    IF ~net.has_buses_only_logical
    THEN {"network.buses_only_logical has not been initiated yet"}
    ELSE IF DOMAIN net.buses_only_logical \subseteq DOMAIN net.df["Bus"]
    THEN {}
    ELSE {"network.buses_only_logical has already been initiated"}

CheckForBusesOnlyLogicalAndAddThemToBuses ==
    /\ pc \in {"idle", "initiated"}
    /\ Called(check_for_buses_only_logical_and_add_them_to_buses(n),
              check_logged(n))

DetermineLogicalTopology ==
    /\ pc \in {"idle", "initiated"}
    /\ Called(determine_logical_topology(n), {"determining logical topology"})

FindOnlyLogicalBuses ==
    /\ pc \in {"idle", "initiated"}
    /\ Called(find_only_logical_buses(n), {"find_only_logical_buses"})

FindSwitchesConnections ==
    /\ pc \in {"idle", "initiated"}
    /\ Called(returned(find_switches_connections(n)),
              {"find_switches_connections"})

NextSwitch ==
    \/ InitSwitches
    \/ AddSwitch
    \/ CloseSwitches
    \/ OpenSwitches
    \/ Switching
    \/ CheckForBusesOnlyLogicalAndAddThemToBuses
    \/ DetermineLogicalTopology
    \/ FindOnlyLogicalBuses
    \/ FindSwitchesConnections

\* a row of network.switches before the switches are initiated
Switch(name, bus0, bus1, status) ==
    [name |-> name, bus0 |-> bus0, bus1 |-> bus1, status |-> status,
     bus_connected |-> "NaN"]
\* no switch, one, two in a row, two in parallel, or one from a bus to itself
SwitchTables ==
    {<< >>}
      \cup {<<Switch("s1", "a", "b", x)>> : x \in {0, 1}}
      \cup {<<Switch("s1", "a", "b", xy[1]), Switch("s2", p[1], p[2], xy[2])>> :
              xy \in {0, 1} \X {0, 1},
              p \in {<<"b", "c">>, <<"a", "b">>, <<"b", "a">>, <<"c", "c">>}}
\* buses a, b, c and d; a generator at a, a load at b and, when wired, a line
\* from c to d; without the line, c carries switches only; with or without
\* a storage unit at b, whose columns the one-port components are iterated
\* before or after in any order
InitSwitch ==
    \E table \in SwitchTables, wired \in BOOLEAN, storage \in BOOLEAN,
       one_port_order \in OnePortOrders :
      /\ ~storage => one_port_order = <<"Generator", "Load", "StorageUnit", "Store">>
      /\ Start([EmptyNetwork EXCEPT
                 !.df["Bus"] = [b \in {"a", "b", "c", "d"} |-> BusDefaults],
                 !.df["Generator"] =
                     "gen" :> [GeneratorDefaults EXCEPT !.bus = "a", !.p_nom = 1],
                 !.df["Load"] = "load" :> [LoadDefaults EXCEPT !.bus = "b"],
                 !.df["StorageUnit"] =
                     IF storage
                     THEN "su" :> [StorageUnitDefaults EXCEPT !.bus = "b"]
                     ELSE << >>,
                 !.df["Line"] =
                     IF wired
                     THEN "line" :> [LineDefaults EXCEPT !.bus0 = "c", !.bus1 = "d"]
                     ELSE << >>]
              @@ [switches |-> table, buses_connected |-> << >>,
                  buses_disconnected |-> << >>, buses_only_logical |-> << >>,
                  has_buses_only_logical |-> FALSE,
                  switches_connections |-> [columns |-> << >>, loc |-> << >>],
                  one_port_order |-> one_port_order])

SpecSwitch == InitSwitch /\ [][NextSwitch]_vars


(***************************************************************************)
(* Claims on switching.                                                    *)
(***************************************************************************)
Initiated == pc = "initiated"
\* the cells recorded for switch s: the element el of the table `component`
\* was found with its column el_bus at the end log_bus of the switch
Connections(s) ==
    LET columns == n.switches_connections.columns
    IN UNION {{[component |-> getattr(columns[i][2]), el |-> a,
                el_bus |-> columns[i][1], log_bus |-> columns[i][3]]
                 : a \in n.switches_connections.loc[s][i]}
                : i \in {x \in DOMAIN columns : hasattr(columns[x][2])}}
\* the bus a connected cell refers to now
Reference(x) == n.df[x.component][x.el][x.el_bus]
\* the switches that are connected to the cell of connection x
SwitchesAt(x) ==
    {s \in switches_index(n) :
        \E y \in Connections(s) :
            y.component = x.component /\ y.el = x.el /\ y.el_bus = x.el_bus}
IsClosed(s) == switches_loc(n, s).status = 1

\* C27: on an initiated network, after switching, close_switches or
\* open_switches, every element at a terminal bus of a closed switch refers
\* to the bus_connected of that switch, and every element none of whose
\* switches is closed refers to its original terminal bus; also when an
\* open and a closed switch share a terminal bus.
C27_TopologyReflectsStatus ==
    Initiated =>
        \A s \in switches_index(n) : \A x \in Connections(s) :
            /\ IsClosed(s) => Reference(x) = switches_loc(n, s).bus_connected
            /\ (\A t \in SwitchesAt(x) : ~IsClosed(t))
                  => Reference(x) = switches_loc(n, s)[x.log_bus]


\* two distinct switches of the table join the same pair of buses
Parallel(net) ==
    \E i \in DOMAIN net.switches : \E j \in DOMAIN net.switches :
        /\ i # j
        /\ {net.switches[i].bus0, net.switches[i].bus1}
             = {net.switches[j].bus0, net.switches[j].bus1}
\* a switch from bus0 to bus1 would be parallel to a switch of the table
ParallelTo(net, bus0, bus1) ==
    \E i \in DOMAIN net.switches :
        {net.switches[i].bus0, net.switches[i].bus1} = {bus0, bus1}
AfterInitSwitches == log = {"Initiating switches"}
AfterAddSwitch == log = {"adding switch"}

\* C28: init_switches on a network with two parallel switches raises an
\* assertion error and leaves the network as it was; add_switch raises an
\* assertion error when the new switch would be parallel to an existing
\* one, when its bus0 equals its bus1, or when its name is in use.
C28_ParallelSwitchesRejected ==
    /\ (AfterInitSwitches /\ Parallel(n_prev)) =>
          err = "AssertionError" /\ n = n_prev
    /\ (Initiated \/ n.switches = << >>) =>
          \A name \in SwitchNames, bus0 \in SwitchEnds, bus1 \in SwitchEnds,
             status \in {0, 1} :
              (\/ ParallelTo(n, bus0, bus1)
               \/ bus0 = bus1
               \/ name \in switches_index(n))
                => add_switch(n, name, bus0, bus1, status).err = "AssertionError"

\* C29: a call of add_switch whose assertion fails leaves the network
\* exactly as it was: switch statuses, bus references and bus table; a call
\* that succeeds leaves every switch that existed before with the status it
\* had.
C29_AddSwitchAllOrNothing ==
    AfterAddSwitch =>
        /\ err = "AssertionError" => n = n_prev
        /\ err = "" =>
              \A s \in switches_index(n_prev) :
                  switches_loc(n, s).status = switches_loc(n_prev, s).status

\* the switches that share the bus_connected `bus`
Sharing(bus) == {s \in switches_index(n) : switches_loc(n, s).bus_connected = bus}

\* C30: on an initiated network, after any calls of close_switches and
\* open_switches, a bus_connected is a bus of the network if and only if at
\* least one of the switches that share it is closed.
C30_ConnectedBusPresence ==
    Initiated =>
        \A s \in switches_index(n) :
            LET bus == switches_loc(n, s).bus_connected
            IN bus \in DOMAIN n.df["Bus"] <=> \E t \in Sharing(bus) : IsClosed(t)
\* an open and a closed switch share a bus_connected after open_switches
C30_Witness ==
    /\ Initiated
    /\ log = {"opening switches"}
    /\ \E s \in switches_index(n) : \E t \in switches_index(n) :
          /\ IsClosed(s) /\ ~IsClosed(t)
          /\ switches_loc(n, s).bus_connected = switches_loc(n, t).bus_connected
          /\ switches_loc(n, s).bus_connected \in DOMAIN n.df["Bus"]

====
